---- MODULE Spec2Model ----
(***************************************************************************)
(* UserState (packages/circuits/src/index.ts): the identity-scoped view    *)
(* built on the Synchronizer.  The ledger is an ordered event log; the     *)
(* Synchronizer mirrors a prefix of it into the local tables (GSTLeaf,     *)
(* Attestation) and then runs the UserState handler of the event.  The     *)
(* application may also call the public methods directly.                  *)
(***************************************************************************)
EXTENDS Integers, Sequences, FiniteSets, TLC

\* ------------------------------------------------------------------ bounds
\* operations in a run: events the ledger emits and direct calls
MaxOps == 4
\* events the ledger may be ahead of the event being applied
MaxLag == 1
\* direct calls of the public methods in a run
MaxCalls == 2
\* settings.numEpochKeyNoncePerEpoch
numEpochKeyNoncePerEpoch == 2
\* attestations submitted in the epoch whose transition is proved
MaxAttestations == 3
\* attestations one processAttestations proof takes
NUM_ATTESTATIONS_PER_PROOF == 2
\* largest number a decimal string is parsed to
MaxBigInt == 32
\* settings.maxReputationBudget
maxReputationBudget == 3
\* attestations of the epoch when the prover's calls are followed
MaxProvedAttestations == 2
userStateTreeDepth == 2

\* ------------------------------------------------------------------ inputs
AttesterIds == {1, 2}
Nonces == 0..(numEpochKeyNoncePerEpoch - 1)
\* sign-up arguments: no attester, or attester 1, without or with an airdrop
SignUpAttesterIds == {0, 1}
AirdropAmounts == {0, 2}

\* ------------------------------------------------------------- identities
OwnCommitment == "own"
OtherCommitment == "other"
Commitments == {OwnCommitment, OtherCommitment}

\* ------------------------------------------------------------- reputation
DefaultReputation == [posRep |-> 0, negRep |-> 0, graffiti |-> 0, signUp |-> 0]

\* Reputation.update: posRep and negRep are added, a non-zero graffiti
\* replaces the stored one, signUp is or-ed.
ReputationUpdate(rep, posRep, negRep, graffiti, signUp) ==
    [posRep |-> rep.posRep + posRep,
     negRep |-> rep.negRep + negRep,
     graffiti |-> IF graffiti # 0 THEN graffiti ELSE rep.graffiti,
     signUp |-> IF rep.signUp # 0 \/ signUp # 0 THEN 1 ELSE 0]

\* ------------------------------------------------------------------ hashes
\* The sparse user state tree of depth userStateTreeDepth: its root is a
\* collision-free function of the leaf stored under every attester id, the
\* default leaf being the hash of the default reputation.
EmptyUSTRoot == [a \in AttesterIds |-> DefaultReputation]

SMTUpdate(root, attesterId, rep) == [root EXCEPT ![attesterId] = rep]

\* hashLeftRight(commitment, root); BigInt(0) is no hash value.
ZeroLeaf == [kind |-> "zero", left |-> "", right |-> EmptyUSTRoot]

hashLeftRight(left, right) == [kind |-> "hash", left |-> left, right |-> right]

\* genEpochKey(identityNullifier, epoch, nonce) of this identity.
genEpochKey(epoch, nonce) == <<epoch, nonce>>

\* this.id.identityNullifier
identityNullifier == "identityNullifier"

\* hash5 pads its elements with zeros up to five and hashes them; the hash
\* is collision-free.
hash5(elements) ==
    [kind |-> "hash5",
     elements |-> elements \o [i \in 1..(5 - Len(elements)) |-> 0]]

\* Attestation.hash()
AttestationHash(attestation) ==
    hash5(<<attestation.attesterId, attestation.posRep, attestation.negRep,
            attestation.graffiti, attestation.signUp>>)

\* Array.prototype.slice(start, end) of a sequence indexed from 1
slice(s, start, end) ==
    SubSeq(s, start + 1, IF end > Len(s) THEN Len(s) ELSE end)

\* ---------------------------------------------------------------- state
VARIABLES
    log,                          \* the ledger's ordered event log
    processed,                    \* number of events the Synchronizer has applied
    hasSignedUp,                  \* UserState._hasSignedUp
    latestTransitionedEpoch,      \* UserState.latestTransitionedEpoch
    latestGSTLeafIndex,           \* UserState.latestGSTLeafIndex
    latestUserStateLeaves,        \* references to IUserStateLeaf objects
    heap,                         \* the IUserStateLeaf objects, by reference
    transitionedFromAttestations, \* epoch key -> snapshotted attestations
    newUserState,                 \* staged {newGSTLeaf, newUSTLeaves}
    result,                       \* the last operation and how it ended
    calls                         \* direct calls of the public methods so far

ledgerVars == <<log, processed>>
userVars == <<hasSignedUp, latestTransitionedEpoch, latestGSTLeafIndex,
              latestUserStateLeaves, heap, transitionedFromAttestations,
              newUserState>>
vars == <<log, processed, hasSignedUp, latestTransitionedEpoch,
          latestGSTLeafIndex, latestUserStateLeaves, heap,
          transitionedFromAttestations, newUserState, result, calls>>

\* ---------------------------------------------------------------- ledger
NoAttestation ==
    [attesterId |-> 0, posRep |-> 0, negRep |-> 0, graffiti |-> 0, signUp |-> 0]

Attestation(attesterId, posRep, negRep, graffiti, signUp) ==
    [attesterId |-> attesterId, posRep |-> posRep, negRep |-> negRep,
     graffiti |-> graffiti, signUp |-> signUp]

\* A row of the Attestation table: the attestation as submitted, the
\* overwriteGraffiti flag it was submitted with, and whether it is valid.
Row(att, overwriteGraffiti, valid) ==
    [attesterId |-> att.attesterId, posRep |-> att.posRep, negRep |-> att.negRep,
     graffiti |-> att.graffiti, signUp |-> att.signUp,
     overwriteGraffiti |-> overwriteGraffiti, valid |-> valid]

Event(type, epoch, commitment, attesterId, airdrop, leaf, epochKey, att, fromEpoch) ==
    [type |-> type, epoch |-> epoch, commitment |-> commitment,
     attesterId |-> attesterId, airdrop |-> airdrop, leaf |-> leaf,
     epochKey |-> epochKey, attestation |-> att, fromEpoch |-> fromEpoch]

NoKey == genEpochKey(0, 0)

\* fromEpoch of a UserStateTransitioned event whose proofIndex names no
\* valid row of the Proof table
NoProofRecord == -1

RECURSIVE CountEpochEnded(_)
CountEpochEnded(l) ==
    IF l = <<>> THEN 0
    ELSE (IF l[Len(l)].type = "EpochEnded" THEN 1 ELSE 0)
         + CountEpochEnded(SubSeq(l, 1, Len(l) - 1))

\* The epoch open on the ledger: the first epoch is 1.
ChainEpoch(l) == 1 + CountEpochEnded(l)

\* The user state tree root the ledger computes for a sign-up.
AirdropUSTRoot(attesterId, airdrop) ==
    IF attesterId # 0 /\ airdrop # 0
    THEN SMTUpdate(EmptyUSTRoot, attesterId,
                   ReputationUpdate(DefaultReputation, airdrop, 0, 0, 1))
    ELSE EmptyUSTRoot

\* ------------------------------------------------------- local tables
\* The Synchronizer's tables hold what the first n events of the log put
\* there, in log order.
Applied(n) == SubSeq(log, 1, n)

IsGSTLeafEvent(e) ==
    /\ e.type \in {"UserSignedUp", "UserStateTransitioned"}
    /\ e.fromEpoch # NoProofRecord

\* GSTLeaf rows of an epoch, ordered by index.
GSTLeaves(n, epoch) ==
    LET rows == SelectSeq(Applied(n), LAMBDA e : IsGSTLeafEvent(e) /\ e.epoch = epoch)
    IN [i \in 1..Len(rows) |-> rows[i].leaf]

\* Valid Attestation rows of an epoch key, in insertion order.
AttestationRows(n, epochKey) ==
    LET rows == SelectSeq(Applied(n),
                  LAMBDA e : /\ e.type = "AttestationSubmitted"
                             /\ e.epochKey = epochKey
                             /\ e.attestation.valid)
    IN [i \in 1..Len(rows) |-> rows[i].attestation]

\* Synchronizer.loadCurrentEpoch().number
loadCurrentEpoch == ChainEpoch(log)

\* Synchronizer._checkValidEpoch(epoch)
_checkValidEpoch(epoch) == epoch <= loadCurrentEpoch

\* ------------------------------------------------------------- UserState
\* The UserState object as a record, so that a method is an operator from
\* the object before the call to the object after it.
Self ==
    [hasSignedUp |-> hasSignedUp,
     latestTransitionedEpoch |-> latestTransitionedEpoch,
     latestGSTLeafIndex |-> latestGSTLeafIndex,
     latestUserStateLeaves |-> latestUserStateLeaves,
     heap |-> heap,
     transitionedFromAttestations |-> transitionedFromAttestations,
     newUserState |-> newUserState]

\* How a call ends: the object after it, the error thrown ("" when it
\* returns), and what it did.
Ret(u, error, effect) == [u |-> u, error |-> error, effect |-> effect]

EmptyHeap == [r \in {} |-> 0]

EmptyNewUserState == [newGSTLeaf |-> ZeroLeaf, newUSTLeaves |-> <<>>]

Range(s) == {s[i] : i \in 1..Len(s)}

SetMin(S) == CHOOSE x \in S : \A y \in S : x <= y

\* A reference no live object has.
NewRef(h) == SetMin({r \in 1..(Cardinality(DOMAIN h) + 1) : r \notin DOMAIN h})

\* Objects no field refers to any more are dropped.
Collect(u) ==
    LET live == Range(u.latestUserStateLeaves) \cup Range(u.newUserState.newUSTLeaves)
    IN [u EXCEPT !.heap = [r \in live |-> u.heap[r]]]

getNumGSTLeaves(n, epoch) == Len(GSTLeaves(n, epoch))

\* getAttestations that returns the newest row first
getAttestations_newestFirst(n, epochKey) ==
    LET rows == AttestationRows(n, epochKey)
    IN [i \in 1..Len(rows) |-> rows[Len(rows) + 1 - i]]

\* rows of the Attestation table for an epoch key (valid rows only)
getAttestations(n, epochKey) == AttestationRows(n, epochKey)

\* getRepByAttester that returns the record of the first leaf, whichever
\* attester it belongs to
getRepByAttesterOf_firstLeaf(u, attesterId) ==
    IF u.latestUserStateLeaves # <<>>
    THEN u.heap[u.latestUserStateLeaves[1]].reputation
    ELSE DefaultReputation

getRepByAttesterOf(u, attesterId) ==
    LET found == {i \in 1..Len(u.latestUserStateLeaves) :
                    u.heap[u.latestUserStateLeaves[i]].attesterId = attesterId}
    IN IF found # {}
       THEN u.heap[u.latestUserStateLeaves[SetMin(found)]].reputation
       ELSE DefaultReputation

getRepByAttester(attesterId) == getRepByAttesterOf(Self, attesterId)

\* signUp with one of its steps changed: the commitment comparison dropped,
\* the not-signed-up assertion dropped, or the leaf index taken as the count
signUpVariant(u, n, epoch, identityCommitment, attesterId, airdropAmount,
              anyCommitment, noSignedUpCheck, indexOffset) ==
    IF anyCommitment \/ identityCommitment = OwnCommitment
    THEN IF u.hasSignedUp /\ ~noSignedUpCheck
         THEN Ret(u, "AlreadySignedUp", "none")
         ELSE LET r == NewRef(u.heap)
                  stateLeave == [attesterId |-> attesterId,
                                 reputation |-> ReputationUpdate(DefaultReputation,
                                                                 airdropAmount, 0, 0, 1)]
                  u1 == IF attesterId # 0 /\ airdropAmount # 0
                        THEN [u EXCEPT !.heap = (r :> stateLeave) @@ u.heap,
                                       !.latestUserStateLeaves = <<r>>]
                        ELSE u
                  u2 == [u1 EXCEPT !.latestTransitionedEpoch = epoch]
              IN IF ~_checkValidEpoch(epoch)
                 THEN Ret(Collect(u2), "InvalidEpoch", "none")
                 ELSE Ret(Collect([u2 EXCEPT
                                     !.latestGSTLeafIndex =
                                         getNumGSTLeaves(n, epoch) - 1 + indexOffset,
                                     !.hasSignedUp = TRUE]),
                          "", "signedUp")
    ELSE Ret(u, "", "none")

signUp_anyCommitment(u, n, epoch, identityCommitment, attesterId, airdropAmount) ==
    signUpVariant(u, n, epoch, identityCommitment, attesterId, airdropAmount,
                  TRUE, FALSE, 0)

signUp_noSignedUpCheck(u, n, epoch, identityCommitment, attesterId, airdropAmount) ==
    signUpVariant(u, n, epoch, identityCommitment, attesterId, airdropAmount,
                  FALSE, TRUE, 0)

signUp_indexIsCount(u, n, epoch, identityCommitment, attesterId, airdropAmount) ==
    signUpVariant(u, n, epoch, identityCommitment, attesterId, airdropAmount,
                  FALSE, FALSE, 1)

signUp(u, n, epoch, identityCommitment, attesterId, airdropAmount) ==
    IF identityCommitment = OwnCommitment
    THEN IF u.hasSignedUp
         THEN Ret(u, "AlreadySignedUp", "none")
         ELSE LET r == NewRef(u.heap)
                  stateLeave == [attesterId |-> attesterId,
                                 reputation |-> ReputationUpdate(DefaultReputation,
                                                                 airdropAmount, 0, 0, 1)]
                  u1 == IF attesterId # 0 /\ airdropAmount # 0
                        THEN [u EXCEPT !.heap = (r :> stateLeave) @@ u.heap,
                                       !.latestUserStateLeaves = <<r>>]
                        ELSE u
                  u2 == [u1 EXCEPT !.latestTransitionedEpoch = epoch]
              IN IF ~_checkValidEpoch(epoch)
                 THEN Ret(Collect(u2), "InvalidEpoch", "none")
                 ELSE Ret(Collect([u2 EXCEPT
                                     !.latestGSTLeafIndex = getNumGSTLeaves(n, epoch) - 1,
                                     !.hasSignedUp = TRUE]),
                          "", "signedUp")
    ELSE Ret(u, "", "none")

RECURSIVE TreeFromLeaves(_, _, _)
TreeFromLeaves(h, leaves, root) ==
    IF leaves = <<>> THEN root
    ELSE TreeFromLeaves(h, Tail(leaves),
                        SMTUpdate(root, h[Head(leaves)].attesterId,
                                  h[Head(leaves)].reputation))

\* root of the tree _genUserStateTreeFromLeaves builds
_genUserStateTreeFromLeaves(h, leaves) == TreeFromLeaves(h, leaves, EmptyUSTRoot)

genUserStateTreeRootOf(u) == _genUserStateTreeFromLeaves(u.heap, u.latestUserStateLeaves)

\* _updateUserStateLeaf that overwrites the record of an attester that has a
\* leaf instead of updating it
_updateUserStateLeaf_replaces(attestation, st) ==
    LET attesterId == attestation.attesterId
        found == {i \in 1..Len(st.stateLeaves) :
                    st.heap[st.stateLeaves[i]].attesterId = attesterId}
        fresh == ReputationUpdate(DefaultReputation, attestation.posRep,
                                  attestation.negRep, attestation.graffiti,
                                  attestation.signUp)
    IN IF found # {}
       THEN [st EXCEPT !.heap[st.stateLeaves[SetMin(found)]].reputation = fresh]
       ELSE LET r == NewRef(st.heap)
            IN [heap |-> (r :> [attesterId |-> attesterId, reputation |-> fresh])
                             @@ st.heap,
                stateLeaves |-> Append(st.stateLeaves, r)]

\* st = [heap, stateLeaves]: the leaf objects and the array of references
_updateUserStateLeaf(attestation, st) ==
    LET attesterId == attestation.attesterId
        found == {i \in 1..Len(st.stateLeaves) :
                    st.heap[st.stateLeaves[i]].attesterId = attesterId}
    IN IF found # {}
       THEN LET r == st.stateLeaves[SetMin(found)]
            IN [st EXCEPT !.heap[r].reputation =
                   ReputationUpdate(st.heap[r].reputation, attestation.posRep,
                                    attestation.negRep, attestation.graffiti,
                                    attestation.signUp)]
       ELSE LET r == NewRef(st.heap)
                newLeaf == [attesterId |-> attesterId,
                            reputation |-> ReputationUpdate(DefaultReputation,
                                              attestation.posRep, attestation.negRep,
                                              attestation.graffiti, attestation.signUp)]
            IN [heap |-> (r :> newLeaf) @@ st.heap,
                stateLeaves |-> Append(st.stateLeaves, r)]

RECURSIVE FoldAttestations(_, _)
FoldAttestations(attestations, st) ==
    IF attestations = <<>> THEN st
    ELSE FoldAttestations(Tail(attestations),
                          _updateUserStateLeaf(Head(attestations), st))

_saveAttestations(u, n) ==
    IF ~u.hasSignedUp
    THEN Ret(u, "NotSignedUp", "none")
    ELSE LET fromEpoch == u.latestTransitionedEpoch
             keys == {genEpochKey(fromEpoch, nonce) : nonce \in Nonces}
             old == u.transitionedFromAttestations
         IN Ret([u EXCEPT !.transitionedFromAttestations =
                    [k \in DOMAIN old \cup keys |->
                        IF k \in keys
                        THEN LET attestations == getAttestations(n, k)
                             IN [i \in 1..Len(attestations) |->
                                    Attestation(attestations[i].attesterId,
                                                attestations[i].posRep,
                                                attestations[i].negRep,
                                                attestations[i].graffiti,
                                                attestations[i].signUp)]
                        ELSE old[k]]],
                "", "saved")

RECURSIVE FoldNonces(_, _, _)
FoldNonces(u, nonce, st) ==
    IF nonce >= numEpochKeyNoncePerEpoch THEN st
    ELSE LET epochKey == genEpochKey(u.latestTransitionedEpoch, nonce)
             attestations ==
                 IF epochKey \in DOMAIN u.transitionedFromAttestations
                 THEN u.transitionedFromAttestations[epochKey]
                 ELSE <<>>
         IN FoldNonces(u, nonce + 1, FoldAttestations(attestations, st))

\* _genNewUserStateAfterTransition that hashes the root of the committed
\* leaves as they were
_genNewUserStateAfterTransition_committedRoot(u) ==
    IF ~u.hasSignedUp
    THEN Ret(u, "NotSignedUp", "none")
    ELSE LET st == FoldNonces(u, 0, [heap |-> u.heap,
                                     stateLeaves |-> u.latestUserStateLeaves])
             newRoot == _genUserStateTreeFromLeaves(u.heap, u.latestUserStateLeaves)
         IN Ret([u EXCEPT !.heap = st.heap,
                          !.newUserState =
                              [newGSTLeaf |-> hashLeftRight(OwnCommitment, newRoot),
                               newUSTLeaves |-> st.stateLeaves]],
                "", "staged")

_genNewUserStateAfterTransition(u) ==
    IF ~u.hasSignedUp
    THEN Ret(u, "NotSignedUp", "none")
    ELSE LET st == FoldNonces(u, 0, [heap |-> u.heap,
                                     stateLeaves |-> u.latestUserStateLeaves])
             newRoot == _genUserStateTreeFromLeaves(st.heap, st.stateLeaves)
         IN Ret([u EXCEPT !.heap = st.heap,
                          !.newUserState =
                              [newGSTLeaf |-> hashLeftRight(OwnCommitment, newRoot),
                               newUSTLeaves |-> st.stateLeaves]],
                "", "staged")

\* epochTransition without the comparison of the ended epoch
epochTransition_anyEpoch(u, n, epoch) ==
    LET saved == _saveAttestations(u, n)
    IN IF saved.error # "" THEN saved
       ELSE LET staged == _genNewUserStateAfterTransition(saved.u)
            IN Ret(Collect(staged.u), staged.error, staged.effect)

epochTransition(u, n, epoch) ==
    IF epoch = u.latestTransitionedEpoch
    THEN LET saved == _saveAttestations(u, n)
         IN IF saved.error # "" THEN saved
            ELSE LET staged == _genNewUserStateAfterTransition(saved.u)
                 IN Ret(Collect(staged.u), staged.error, staged.effect)
    ELSE Ret(u, "", "none")

\* _transition without the assertion that the epoch has moved on
_transition_sameEpochAllowed(u, n, newLeaf) ==
    IF ~u.hasSignedUp
    THEN Ret(u, "NotSignedUp", "none")
    ELSE LET transitionToEpoch == loadCurrentEpoch
             transitionToGSTIndex == getNumGSTLeaves(n, transitionToEpoch) - 1
             newState == u.newUserState
         IN IF newLeaf # newState.newGSTLeaf
            THEN Ret(u, "", "mismatch")
            ELSE Ret([u EXCEPT !.latestTransitionedEpoch = transitionToEpoch,
                               !.latestGSTLeafIndex = transitionToGSTIndex,
                               !.latestUserStateLeaves = newState.newUSTLeaves],
                     "", "committed")

\* _transition that leaves latestUserStateLeaves as it was
_transition_keepsLeaves(u, n, newLeaf) ==
    IF ~u.hasSignedUp
    THEN Ret(u, "NotSignedUp", "none")
    ELSE LET fromEpoch == u.latestTransitionedEpoch
             transitionToEpoch == loadCurrentEpoch
             transitionToGSTIndex == getNumGSTLeaves(n, transitionToEpoch) - 1
             newState == u.newUserState
         IN IF newLeaf # newState.newGSTLeaf
            THEN Ret(u, "", "mismatch")
            ELSE IF ~(fromEpoch < transitionToEpoch)
            THEN Ret(u, "SameEpoch", "none")
            ELSE Ret([u EXCEPT !.latestTransitionedEpoch = transitionToEpoch,
                               !.latestGSTLeafIndex = transitionToGSTIndex],
                     "", "committed")

_transition(u, n, newLeaf) ==
    IF ~u.hasSignedUp
    THEN Ret(u, "NotSignedUp", "none")
    ELSE LET fromEpoch == u.latestTransitionedEpoch
             transitionToEpoch == loadCurrentEpoch
             transitionToGSTIndex == getNumGSTLeaves(n, transitionToEpoch) - 1
             newState == u.newUserState
         IN IF newLeaf # newState.newGSTLeaf
            THEN Ret(u, "", "mismatch")
            ELSE IF ~(fromEpoch < transitionToEpoch)
            THEN Ret(u, "SameEpoch", "none")
            ELSE Ret([u EXCEPT !.latestTransitionedEpoch = transitionToEpoch,
                               !.latestGSTLeafIndex = transitionToGSTIndex,
                               !.latestUserStateLeaves = newState.newUSTLeaves],
                     "", "committed")

\* userStateTransition that leaves the staged state as it is
userStateTransition_keepsStaged(u, n, fromEpoch, GSTLeaf) ==
    IF u.hasSignedUp /\ u.latestTransitionedEpoch = fromEpoch
    THEN LET t == _transition(u, n, GSTLeaf)
         IN IF t.error # "" THEN t ELSE Ret(Collect(t.u), "", t.effect)
    ELSE Ret(u, "", "none")

userStateTransition(u, n, fromEpoch, GSTLeaf) ==
    IF u.hasSignedUp /\ u.latestTransitionedEpoch = fromEpoch
    THEN LET t == _transition(u, n, GSTLeaf)
         IN IF t.error # "" THEN t
            ELSE Ret(Collect([t.u EXCEPT !.newUserState = EmptyNewUserState]),
                     "", t.effect)
    ELSE Ret(Collect([u EXCEPT !.newUserState = EmptyNewUserState]), "", "none")

\* ------------------------------------------------ the ledger's own view
\* What the ledger holds for this identity after the events of l: whether
\* it signed up, the epoch of its latest GST leaf and the user state root
\* in that leaf.
RECURSIVE ChainOwn(_)
ChainOwn(l) ==
    IF l = <<>>
    THEN [signedUp |-> FALSE, epoch |-> 0, root |-> EmptyUSTRoot]
    ELSE LET e == l[Len(l)]
         IN IF e.commitment = OwnCommitment /\ e.type = "UserSignedUp"
            THEN [signedUp |-> TRUE, epoch |-> e.epoch,
                  root |-> AirdropUSTRoot(e.attesterId, e.airdrop)]
            ELSE IF e.commitment = OwnCommitment /\ e.type = "UserStateTransitioned"
            THEN [signedUp |-> TRUE, epoch |-> e.epoch, root |-> e.leaf.right]
            ELSE ChainOwn(SubSeq(l, 1, Len(l) - 1))

SignedUpOnChain(l, c) ==
    \E i \in 1..Len(l) : l[i].type = "UserSignedUp" /\ l[i].commitment = c

RECURSIVE ApplyAttestations(_, _)
ApplyAttestations(attestations, root) ==
    IF attestations = <<>> THEN root
    ELSE LET a == Head(attestations)
         IN ApplyAttestations(Tail(attestations),
                SMTUpdate(root, a.attesterId,
                          ReputationUpdate(root[a.attesterId], a.posRep, a.negRep,
                                           a.graffiti, a.signUp)))

AttestationsTo(l, epochKey) ==
    LET rows == SelectSeq(l, LAMBDA e : /\ e.type = "AttestationSubmitted"
                                        /\ e.epochKey = epochKey
                                        /\ e.attestation.valid)
    IN [i \in 1..Len(rows) |-> rows[i].attestation]

RECURSIVE TransitionedRoot(_, _, _, _)
TransitionedRoot(l, epoch, nonce, root) ==
    IF nonce >= numEpochKeyNoncePerEpoch THEN root
    ELSE TransitionedRoot(l, epoch, nonce + 1,
            ApplyAttestations(AttestationsTo(l, genEpochKey(epoch, nonce)), root))

\* The only GST leaf the ledger accepts as this identity's transition out
\* of the epoch of its latest leaf.
NextOwnLeaf(l) ==
    hashLeftRight(OwnCommitment,
                  TransitionedRoot(l, ChainOwn(l).epoch, 0, ChainOwn(l).root))

OtherLeaf == hashLeftRight(OtherCommitment, EmptyUSTRoot)

CanEmit == Len(log) + calls < MaxOps /\ Len(log) - processed <= MaxLag

Emit(e) ==
    /\ log' = Append(log, e)
    /\ UNCHANGED <<processed, userVars, result, calls>>

LedgerUserSignUp(c, attesterId, airdrop) ==
    /\ CanEmit
    /\ ~SignedUpOnChain(log, c)
    /\ Emit(Event("UserSignedUp", ChainEpoch(log), c, attesterId, airdrop,
                  hashLeftRight(c, AirdropUSTRoot(attesterId, airdrop)),
                  NoKey, NoAttestation, 0))

LedgerAttest(nonce, att) ==
    /\ CanEmit
    /\ ChainOwn(log).signedUp
    /\ ChainOwn(log).epoch = ChainEpoch(log)
    /\ Emit(Event("AttestationSubmitted", ChainEpoch(log), "", att.attesterId, 0,
                  ZeroLeaf, genEpochKey(ChainEpoch(log), nonce), att, 0))

LedgerEndEpoch ==
    /\ CanEmit
    /\ Emit(Event("EpochEnded", ChainEpoch(log), "", 0, 0, ZeroLeaf,
                  NoKey, NoAttestation, 0))

LedgerOwnTransition ==
    /\ CanEmit
    /\ ChainOwn(log).signedUp
    /\ ChainOwn(log).epoch < ChainEpoch(log)
    /\ Emit(Event("UserStateTransitioned", ChainEpoch(log), OwnCommitment, 0, 0,
                  NextOwnLeaf(log), NoKey, NoAttestation, ChainOwn(log).epoch))

LedgerOtherTransition ==
    /\ CanEmit
    /\ \E i \in 1..Len(log) :
          /\ log[i].type = "UserSignedUp"
          /\ log[i].commitment = OtherCommitment
          /\ log[i].epoch < ChainEpoch(log)
          /\ \A j \in (i + 1)..Len(log) : log[j].commitment # OtherCommitment
          /\ Emit(Event("UserStateTransitioned", ChainEpoch(log), OtherCommitment,
                        0, 0, OtherLeaf, NoKey, NoAttestation, log[i].epoch))

\* ----------------------------------------------------------------- steps
Outcome(op, via, r) == [op |-> op, via |-> via, error |-> r.error, effect |-> r.effect]

\* The object after a call, and how the call ended.
Install(op, via, r) ==
    \E ended \in {r} :
        /\ hasSignedUp' = ended.u.hasSignedUp
        /\ latestTransitionedEpoch' = ended.u.latestTransitionedEpoch
        /\ latestGSTLeafIndex' = ended.u.latestGSTLeafIndex
        /\ latestUserStateLeaves' = ended.u.latestUserStateLeaves
        /\ heap' = ended.u.heap
        /\ transitionedFromAttestations' = ended.u.transitionedFromAttestations
        /\ newUserState' = ended.u.newUserState
        /\ result' = Outcome(op, via, ended)

NextEventIs(type) == processed < Len(log) /\ log[processed + 1].type = type

\* The Synchronizer stores the event's rows, then the handler registered in
\* start() runs; a handler catches what its call throws.
ApplyUserSignedUp ==
    /\ NextEventIs("UserSignedUp")
    /\ processed' = processed + 1
    /\ LET e == log[processed + 1]
       IN Install("signUp", "event",
                  signUp(Self, processed + 1, e.epoch, e.commitment,
                         e.attesterId, e.airdrop))
    /\ UNCHANGED <<log, calls>>

ApplyAttestationSubmitted ==
    /\ NextEventIs("AttestationSubmitted")
    /\ processed' = processed + 1
    /\ UNCHANGED <<log, userVars, result, calls>>

ApplyEpochEnded ==
    /\ NextEventIs("EpochEnded")
    /\ processed' = processed + 1
    /\ Install("epochTransition", "event",
               epochTransition(Self, processed + 1, log[processed + 1].epoch))
    /\ UNCHANGED <<log, calls>>

ApplyUserStateTransitioned ==
    /\ NextEventIs("UserStateTransitioned")
    /\ processed' = processed + 1
    /\ LET e == log[processed + 1]
       IN IF e.leaf = newUserState.newGSTLeaf
          THEN Install("userStateTransition", "event",
                       userStateTransition(Self, processed + 1, e.fromEpoch, e.leaf))
          ELSE Install("userStateTransition", "event", Ret(Self, "", "ignored"))
    /\ UNCHANGED <<log, calls>>

\* The application calls a public method itself.
LeafChoices == {ZeroLeaf, OtherLeaf, newUserState.newGSTLeaf, NextOwnLeaf(log)}

Called ==
    /\ Len(log) + calls < MaxOps
    /\ calls < MaxCalls
    /\ calls' = calls + 1
    /\ UNCHANGED <<log, processed>>

CallSignUp(epoch, identityCommitment, attesterId, airdropAmount) ==
    /\ Called
    /\ Install("signUp", "call",
               signUp(Self, processed, epoch, identityCommitment, attesterId,
                      airdropAmount))

CallEpochTransition(epoch) ==
    /\ Called
    /\ Install("epochTransition", "call", epochTransition(Self, processed, epoch))

CallUserStateTransition(fromEpoch, GSTLeaf) ==
    /\ Called
    /\ Install("userStateTransition", "call",
               userStateTransition(Self, processed, fromEpoch, GSTLeaf))

\* ------------------------------------------------------- specifications
Init ==
    /\ log = <<>>
    /\ processed = 0
    /\ hasSignedUp = FALSE
    /\ latestTransitionedEpoch = 0
    /\ latestGSTLeafIndex = 0
    /\ latestUserStateLeaves = <<>>
    /\ heap = EmptyHeap
    /\ transitionedFromAttestations = [k \in {} |-> <<>>]
    /\ newUserState = EmptyNewUserState
    /\ result = [op |-> "new", via |-> "call", error |-> "", effect |-> "none"]
    /\ calls = 0

\* what an attester submits: one positive point
AttestationChoices == {Row(Attestation(a, 1, 0, 0, 0), FALSE, TRUE) : a \in AttesterIds}

\* epoch arguments of a direct call: every epoch up to one past the open one
Epochs == 0..(loadCurrentEpoch + 1)

Ledger ==
    \/ \E amount \in AirdropAmounts : LedgerUserSignUp(OwnCommitment, 1, amount)
    \/ LedgerUserSignUp(OtherCommitment, 1, 0)
    \/ \E nonce \in Nonces, att \in AttestationChoices : LedgerAttest(nonce, att)
    \/ LedgerEndEpoch
    \/ LedgerOwnTransition
    \/ LedgerOtherTransition

Replay ==
    \/ ApplyUserSignedUp
    \/ ApplyAttestationSubmitted
    \/ ApplyEpochEnded
    \/ ApplyUserStateTransitioned

Calls ==
    \/ \E epoch \in Epochs, c \in Commitments, a \in SignUpAttesterIds,
          amount \in AirdropAmounts :
          CallSignUp(epoch, c, a, amount)
    \/ \E epoch \in Epochs : CallEpochTransition(epoch)
    \/ \E epoch \in Epochs, leaf \in LeafChoices : CallUserStateTransition(epoch, leaf)

\* the ledger, the replay of its log, and direct calls of the methods
Next == Ledger \/ Replay \/ Calls

Spec == Init /\ [][Next]_vars

\* the ledger and the replay of its log only: every method call is a handler's
NextLedger == Ledger \/ Replay

SpecLedger == Init /\ [][NextLedger]_vars

\* ------------------------------------------------------ toJSON, fromJSON
\* BigInt(string), Number(string) of a decimal string
ParseBigInt(string) == CHOOSE x \in 0..MaxBigInt : ToString(x) = string

\* Reputation.toJSON: the fields as decimal strings
ReputationToJSON(rep) ==
    [posRep |-> ToString(rep.posRep), negRep |-> ToString(rep.negRep),
     graffiti |-> ToString(rep.graffiti), signUp |-> ToString(rep.signUp)]

\* new Reputation(...) of the parsed fields
ReputationFromJSON(parsedLeaf) ==
    [posRep |-> ParseBigInt(parsedLeaf.posRep),
     negRep |-> ParseBigInt(parsedLeaf.negRep),
     graffiti |-> ParseBigInt(parsedLeaf.graffiti),
     signUp |-> ParseBigInt(parsedLeaf.signUp)]

\* JSON.stringify of an attestation
AttestationToJSON(a) ==
    [attesterId |-> ToString(a.attesterId), posRep |-> ToString(a.posRep),
     negRep |-> ToString(a.negRep), graffiti |-> ToString(a.graffiti),
     signUp |-> ToString(a.signUp)]

\* new Attestation(...) of the parsed fields
AttestationFromJSON(parsedAttest) ==
    Attestation(ParseBigInt(parsedAttest.attesterId),
                ParseBigInt(parsedAttest.posRep),
                ParseBigInt(parsedAttest.negRep),
                ParseBigInt(parsedAttest.graffiti),
                ParseBigInt(parsedAttest.signUp))

\* The object toJSON returns. A leaf is stored under the decimal string of
\* its attester id, a later leaf of the same attester replacing an earlier
\* one; only the epoch keys of latestTransitionedEpoch are kept.
toJSON(u) ==
    LET leaves == u.latestUserStateLeaves
        keysOf == {ToString(u.heap[leaves[i]].attesterId) : i \in 1..Len(leaves)}
        lastOf(key) == CHOOSE i \in 1..Len(leaves) :
                          /\ ToString(u.heap[leaves[i]].attesterId) = key
                          /\ \A j \in (i + 1)..Len(leaves) :
                                ToString(u.heap[leaves[j]].attesterId) # key
        epks == {genEpochKey(u.latestTransitionedEpoch, nonce) : nonce \in Nonces}
                \cap DOMAIN u.transitionedFromAttestations
    IN [hasSignedUp |-> u.hasSignedUp,
        latestTransitionedEpoch |-> u.latestTransitionedEpoch,
        latestGSTLeafIndex |-> u.latestGSTLeafIndex,
        latestUserStateLeaves |->
            [key \in keysOf |-> ReputationToJSON(u.heap[leaves[lastOf(key)]].reputation)],
        transitionedFromAttestations |->
            [epk \in epks |->
                [i \in 1..Len(u.transitionedFromAttestations[epk]) |->
                    AttestationToJSON(u.transitionedFromAttestations[epk][i])]]]

\* the numbers of a set in ascending order: the order in which for-in
\* enumerates integer keys
RECURSIVE Ascending(_)
Ascending(S) ==
    IF S = {} THEN <<>> ELSE <<SetMin(S)>> \o Ascending(S \ {SetMin(S)})

\* the constructor that leaves hasSignedUp false whatever it is handed
constructor_notSignedUp(_hasSignedUp, _latestTransitionedEpoch, _latestGSTLeafIndex, h, _latestUserStateLeaves, _transitionedFromAttestations) ==
    [hasSignedUp |-> FALSE,
     latestTransitionedEpoch |-> _latestTransitionedEpoch,
     latestGSTLeafIndex |-> _latestGSTLeafIndex,
     latestUserStateLeaves |-> _latestUserStateLeaves,
     heap |-> h,
     transitionedFromAttestations |-> _transitionedFromAttestations,
     newUserState |-> EmptyNewUserState]

\* new UserState(db, prover, unirepContract, id, _hasSignedUp, ...) with
\* _hasSignedUp given
constructor(_hasSignedUp, _latestTransitionedEpoch, _latestGSTLeafIndex, h, _latestUserStateLeaves, _transitionedFromAttestations) ==
    [hasSignedUp |-> _hasSignedUp,
     latestTransitionedEpoch |-> _latestTransitionedEpoch,
     latestGSTLeafIndex |-> _latestGSTLeafIndex,
     latestUserStateLeaves |-> _latestUserStateLeaves,
     heap |-> h,
     transitionedFromAttestations |-> _transitionedFromAttestations,
     newUserState |-> EmptyNewUserState]

\* fromJSON that hands no leaves to the constructor
fromJSON_withoutLeaves(_userState) ==
    constructor(_userState.hasSignedUp, _userState.latestTransitionedEpoch,
                _userState.latestGSTLeafIndex, EmptyHeap, <<>>,
                [epk \in DOMAIN _userState.transitionedFromAttestations |->
                    [i \in 1..Len(_userState.transitionedFromAttestations[epk]) |->
                        AttestationFromJSON(
                            _userState.transitionedFromAttestations[epk][i])]])

fromJSON(_userState) ==
    LET keys == DOMAIN _userState.latestUserStateLeaves
        ids == Ascending({ParseBigInt(key) : key \in keys})
        userStateLeaves ==
            [r \in 1..Len(ids) |->
                [attesterId |-> ids[r],
                 reputation |-> ReputationFromJSON(
                     _userState.latestUserStateLeaves[ToString(ids[r])])]]
    IN constructor(_userState.hasSignedUp, _userState.latestTransitionedEpoch,
                   _userState.latestGSTLeafIndex,
                   userStateLeaves, [r \in 1..Len(ids) |-> r],
                   [epk \in DOMAIN _userState.transitionedFromAttestations |->
                       [i \in 1..Len(_userState.transitionedFromAttestations[epk]) |->
                           AttestationFromJSON(
                               _userState.transitionedFromAttestations[epk][i])]])

\* ------------------------------------------ genUserStateTransitionProofs
\* outputs of the start transition circuit for the circuit inputs given
_genStartTransitionCircuitInputs(u, fromNonce, userStateTreeRoot, GSTreeRoot) ==
    [circuitInputs |-> [epoch |-> u.latestTransitionedEpoch,
                        nonce |-> fromNonce,
                        user_tree_root |-> userStateTreeRoot,
                        GST_root |-> GSTreeRoot],
     blindedUserState |-> hash5(<<identityNullifier, userStateTreeRoot,
                                  u.latestTransitionedEpoch, fromNonce, 0>>),
     blindedHashChain |-> hash5(<<identityNullifier, ZeroLeaf,
                                  u.latestTransitionedEpoch, fromNonce, 0>>)]

\* The arrays genUserStateTransitionProofs fills, the tree it updates
\* (root), its reputationRecords and the running hash chain of a nonce.
ProofArrays(u, start) ==
    [intermediateUserStateTreeRoots |-> <<genUserStateTreeRootOf(u)>>,
     root |-> genUserStateTreeRootOf(u),
     fromNonces |-> <<0>>,
     toNonces |-> <<>>,
     hashChainStarter |-> <<>>,
     blindedUserState |-> <<start.blindedUserState>>,
     blindedHashChain |-> <<>>,
     reputationRecords |-> [a \in {} |-> DefaultReputation],
     selectors |-> <<>>,
     attesterIds |-> <<>>,
     oldPosReps |-> <<>>, oldNegReps |-> <<>>,
     oldGraffities |-> <<>>, oldSignUps |-> <<>>,
     posReps |-> <<>>, negReps |-> <<>>, graffities |-> <<>>,
     overwriteGraffities |-> <<>>, signUps |-> <<>>,
     finalHashChain |-> <<>>,
     currentHashChain |-> ZeroLeaf]

\* one pass of the loop over the attestations of a nonce, i counted from 0
ProcessAttestation(u, nonce, row, i, acc) ==
    LET fromEpoch == u.latestTransitionedEpoch
        a1 == IF /\ i # 0
                 /\ i % NUM_ATTESTATIONS_PER_PROOF = 0
                 /\ i # NUM_ATTESTATIONS_PER_PROOF - 1
              THEN [acc EXCEPT
                      !.toNonces = Append(@, nonce),
                      !.fromNonces = Append(@, nonce),
                      !.hashChainStarter = Append(@, acc.currentHashChain),
                      !.blindedUserState =
                          Append(@, hash5(<<identityNullifier, acc.root,
                                           fromEpoch, nonce>>))]
              ELSE acc
        attestation == Attestation(row.attesterId, row.posRep, row.negRep,
                                   row.graffiti, row.signUp)
        attesterId == attestation.attesterId
        rep == getRepByAttesterOf(u, attesterId)
        old == IF attesterId \in DOMAIN a1.reputationRecords
               THEN a1.reputationRecords[attesterId]
               ELSE [posRep |-> rep.posRep, negRep |-> rep.negRep,
                     graffiti |-> rep.graffiti, signUp |-> rep.signUp]
        new == ReputationUpdate(old, attestation.posRep, attestation.negRep,
                                attestation.graffiti, attestation.signUp)
        newRoot == SMTUpdate(a1.root, attesterId, new)
    IN [a1 EXCEPT
          !.oldPosReps = Append(@, old.posRep),
          !.oldNegReps = Append(@, old.negRep),
          !.oldGraffities = Append(@, old.graffiti),
          !.oldSignUps = Append(@, old.signUp),
          !.reputationRecords = (attesterId :> new) @@ @,
          !.root = newRoot,
          !.intermediateUserStateTreeRoots = Append(@, newRoot),
          !.selectors = Append(@, 1),
          !.attesterIds = Append(@, attesterId),
          !.posReps = Append(@, attestation.posRep),
          !.negReps = Append(@, attestation.negRep),
          !.graffities = Append(@, attestation.graffiti),
          !.overwriteGraffities =
              Append(@, IF attestation.graffiti # 0 THEN "true" ELSE "false"),
          !.signUps = Append(@, attestation.signUp),
          !.currentHashChain =
              hashLeftRight(AttestationHash(attestation), a1.currentHashChain)]

RECURSIVE ProcessAttestations(_, _, _, _, _)
ProcessAttestations(u, nonce, attestations, i, acc) ==
    IF i >= Len(attestations) THEN acc
    ELSE ProcessAttestations(u, nonce, attestations, i + 1,
            ProcessAttestation(u, nonce, attestations[i + 1], i, acc))

\* blank data that counts as an attestation: selector 1 and a graffiti
RECURSIVE FillBlank_selected(_, _)
FillBlank_selected(acc, count) ==
    IF count <= 0 THEN acc
    ELSE FillBlank_selected(
             [acc EXCEPT
                !.oldPosReps = Append(@, 0),
                !.oldNegReps = Append(@, 0),
                !.oldGraffities = Append(@, 0),
                !.oldSignUps = Append(@, 0),
                !.intermediateUserStateTreeRoots = Append(@, acc.root),
                !.selectors = Append(@, 1),
                !.attesterIds = Append(@, 0),
                !.posReps = Append(@, 0),
                !.negReps = Append(@, 0),
                !.graffities = Append(@, 0),
                !.overwriteGraffities = Append(@, "0"),
                !.signUps = Append(@, 0)],
             count - 1)

\* blank data for an attestation that does not exist
RECURSIVE FillBlank(_, _)
FillBlank(acc, count) ==
    IF count <= 0 THEN acc
    ELSE FillBlank([acc EXCEPT
                      !.oldPosReps = Append(@, 0),
                      !.oldNegReps = Append(@, 0),
                      !.oldGraffities = Append(@, 0),
                      !.oldSignUps = Append(@, 0),
                      !.intermediateUserStateTreeRoots = Append(@, acc.root),
                      !.selectors = Append(@, 0),
                      !.attesterIds = Append(@, 0),
                      !.posReps = Append(@, 0),
                      !.negReps = Append(@, 0),
                      !.graffities = Append(@, 0),
                      !.overwriteGraffities = Append(@, "0"),
                      !.signUps = Append(@, 0)],
                   count - 1)

\* the number of entries of a nonce, without the batch of blank data of a
\* nonce that has no attestation
filledAttestationNum_noBlankBatch(length) ==
    ((length + NUM_ATTESTATIONS_PER_PROOF - 1) \div NUM_ATTESTATIONS_PER_PROOF)
    * NUM_ATTESTATIONS_PER_PROOF

\* Math.ceil(length / NUM_ATTESTATIONS_PER_PROOF) * NUM_ATTESTATIONS_PER_PROOF,
\* or NUM_ATTESTATIONS_PER_PROOF for no attestation
filledAttestationNum(length) ==
    IF length # 0
    THEN ((length + NUM_ATTESTATIONS_PER_PROOF - 1) \div NUM_ATTESTATIONS_PER_PROOF)
         * NUM_ATTESTATIONS_PER_PROOF
    ELSE NUM_ATTESTATIONS_PER_PROOF

\* The loop over the epoch key nonces, with one of its steps changed when
\* asked: the hash chain carried over to the next nonce instead of reset, or
\* the blinded user state of the end of a nonce keyed with the next nonce.
RECURSIVE ProcessNoncesVariant(_, _, _, _, _, _)
ProcessNoncesVariant(u, n, nonce, acc, keepsChain, keyedWithNext) ==
    IF nonce >= numEpochKeyNoncePerEpoch THEN acc
    ELSE LET fromEpoch == u.latestTransitionedEpoch
             epochKey == genEpochKey(fromEpoch, nonce)
             currentHashChain == IF keepsChain THEN acc.currentHashChain
                                 ELSE ZeroLeaf
             a0 == [acc EXCEPT !.currentHashChain = currentHashChain,
                               !.toNonces = Append(@, nonce),
                               !.hashChainStarter = Append(@, currentHashChain)]
             attestations == getAttestations(n, epochKey)
             a1 == ProcessAttestations(u, nonce, attestations, 0, a0)
             a2 == FillBlank(a1, filledAttestationNum(Len(attestations))
                                 - Len(attestations))
             a3 == [a2 EXCEPT
                      !.finalHashChain = Append(@, a2.currentHashChain),
                      !.blindedUserState =
                          Append(@, hash5(<<identityNullifier, a2.root, fromEpoch,
                                           IF keyedWithNext THEN nonce + 1
                                           ELSE nonce>>)),
                      !.blindedHashChain =
                          Append(@, hash5(<<identityNullifier, a2.currentHashChain,
                                           fromEpoch, nonce>>))]
             a4 == IF nonce # numEpochKeyNoncePerEpoch - 1
                   THEN [a3 EXCEPT !.fromNonces = Append(@, nonce)]
                   ELSE a3
         IN ProcessNoncesVariant(u, n, nonce + 1, a4, keepsChain, keyedWithNext)

ProcessNonces_keepsChain(u, n, nonce, acc) ==
    ProcessNoncesVariant(u, n, nonce, acc, TRUE, FALSE)

ProcessNonces_keyedWithNext(u, n, nonce, acc) ==
    ProcessNoncesVariant(u, n, nonce, acc, FALSE, TRUE)

\* the loop over the epoch key nonces, every batch starting from the nonce
\* it ends with
ProcessNonces_fromEqualsTo(u, n, nonce, acc) ==
    LET r == ProcessNoncesVariant(u, n, nonce, acc, FALSE, FALSE)
    IN [r EXCEPT !.fromNonces = [i \in DOMAIN @ |-> r.toNonces[i]]]

\* the loop over the epoch key nonces
ProcessNonces(u, n, nonce, acc) ==
    ProcessNoncesVariant(u, n, nonce, acc, FALSE, FALSE)

\* the circuit inputs of the i-th processAttestations proof, i counted from 0
processAttestationCircuitInputs(u, acc, i) ==
    LET startIdx == NUM_ATTESTATIONS_PER_PROOF * i
        endIdx == NUM_ATTESTATIONS_PER_PROOF * (i + 1)
    IN [epoch |-> u.latestTransitionedEpoch,
        from_nonce |-> acc.fromNonces[i + 1],
        to_nonce |-> acc.toNonces[i + 1],
        identity_nullifier |-> identityNullifier,
        intermediate_user_state_tree_roots |->
            slice(acc.intermediateUserStateTreeRoots, startIdx, endIdx + 1),
        old_pos_reps |-> slice(acc.oldPosReps, startIdx, endIdx),
        old_neg_reps |-> slice(acc.oldNegReps, startIdx, endIdx),
        old_graffities |-> slice(acc.oldGraffities, startIdx, endIdx),
        old_sign_ups |-> slice(acc.oldSignUps, startIdx, endIdx),
        attester_ids |-> slice(acc.attesterIds, startIdx, endIdx),
        pos_reps |-> slice(acc.posReps, startIdx, endIdx),
        neg_reps |-> slice(acc.negReps, startIdx, endIdx),
        graffities |-> slice(acc.graffities, startIdx, endIdx),
        overwrite_graffities |-> slice(acc.overwriteGraffities, startIdx, endIdx),
        sign_ups |-> slice(acc.signUps, startIdx, endIdx),
        selectors |-> slice(acc.selectors, startIdx, endIdx),
        hash_chain_starter |-> acc.hashChainStarter[i + 1],
        input_blinded_user_state |-> acc.blindedUserState[i + 1]]

\* the circuit inputs of the final user state transition proof
finalTransitionCircuitInputs(u, acc, GSTreeRoot) ==
    LET fromEpoch == u.latestTransitionedEpoch
        startEpochKeyNonce == 0
        endEpochKeyNonce == numEpochKeyNoncePerEpoch - 1
        finalUserState == <<acc.intermediateUserStateTreeRoots[1], acc.root>>
    IN [epoch |-> fromEpoch,
        blinded_user_state |->
            <<hash5(<<identityNullifier, finalUserState[1], fromEpoch,
                      startEpochKeyNonce>>),
              hash5(<<identityNullifier, finalUserState[2], fromEpoch,
                      endEpochKeyNonce>>)>>,
        intermediate_user_state_tree_roots |-> finalUserState,
        start_epoch_key_nonce |-> startEpochKeyNonce,
        end_epoch_key_nonce |-> endEpochKeyNonce,
        identity_nullifier |-> identityNullifier,
        GST_root |-> GSTreeRoot,
        hash_chain_results |-> acc.finalHashChain,
        blinded_hash_chain_results |-> acc.blindedHashChain]

\* The circuit inputs genUserStateTransitionProofs hands to the prover, and
\* the outputs of the start transition circuit it computes itself.
genUserStateTransitionProofs(u, n) ==
    IF ~u.hasSignedUp
    THEN [error |-> "NotSignedUp"]
    ELSE IF ~_checkValidEpoch(u.latestTransitionedEpoch)
    THEN [error |-> "InvalidEpoch"]
    ELSE LET fromEpoch == u.latestTransitionedEpoch
             GSTreeRoot == GSTLeaves(n, fromEpoch)
             start == _genStartTransitionCircuitInputs(
                          u, 0, genUserStateTreeRootOf(u), GSTreeRoot)
             acc == ProcessNonces(u, n, 0, ProofArrays(u, start))
         IN [error |-> "",
             startTransition |-> start,
             processAttestations |->
                 [i \in 1..Len(acc.fromNonces) |->
                     processAttestationCircuitInputs(u, acc, i - 1)],
             finalTransition |-> finalTransitionCircuitInputs(u, acc, GSTreeRoot)]

\* _checkEpkNonce: the assertion holds for every number below
\* numEpochKeyNoncePerEpoch
_checkEpkNonce(epochKeyNonce) == epochKeyNonce < numEpochKeyNoncePerEpoch

\* ---------------------------- the proofs of genUserStateTransitionProofs
\* what snarkjs.groth16.fullProve rejects with
ProverError == "ProverError"

\* defaultProver.genProofAndPublicSignals: awaits fullProve and returns its
\* proof and public signals; a rejection of fullProve is not caught
genProofAndPublicSignals(circuitName, inputs, rejects) ==
    IF rejects THEN [error |-> ProverError, proof |-> <<>>]
    ELSE [error |-> "",
          proof |-> [circuit |-> circuitName, publicSignals |-> inputs]]

\* what genUserStateTransitionProofs asks the prover for, in program order
ProverRequests(inputs) ==
    <<[circuit |-> "startTransition",
       inputs |-> inputs.startTransition.circuitInputs]>>
    \o [i \in 1..Len(inputs.processAttestations) |->
           [circuit |-> "processAttestations",
            inputs |-> inputs.processAttestations[i]]]
    \o <<[circuit |-> "userStateTransition", inputs |-> inputs.finalTransition]>>

\* The awaited calls one after the other, call number failAt rejecting (0:
\* none does): st.calls are the calls made, st.proofs what they returned.
\* With retries a rejected call is made once more.
RECURSIVE AwaitProofs(_, _, _, _, _)
AwaitProofs(requests, k, failAt, st, retries) ==
    IF k > Len(requests) \/ st.error # "" THEN st
    ELSE LET r == genProofAndPublicSignals(requests[k].circuit,
                                           requests[k].inputs, k = failAt)
             again == genProofAndPublicSignals(requests[k].circuit,
                                               requests[k].inputs, FALSE)
             called == [st EXCEPT !.calls = Append(@, requests[k])]
         IN IF r.error = ""
            THEN AwaitProofs(requests, k + 1, failAt,
                             [called EXCEPT !.proofs = Append(@, r.proof)],
                             retries)
            ELSE IF retries
            THEN AwaitProofs(requests, k + 1, failAt,
                             [called EXCEPT !.calls = Append(@, requests[k]),
                                            !.proofs = Append(@, again.proof)],
                             retries)
            ELSE [called EXCEPT !.error = r.error]

\* the proof generation that calls the prover again after a rejection
GenerateProofs_retries(requests, failAt) ==
    AwaitProofs(requests, 1, failAt,
                [calls |-> <<>>, proofs |-> <<>>, error |-> ""], TRUE)

\* "Generate proofs": the three phases of genUserStateTransitionProofs
GenerateProofs(requests, failAt) ==
    AwaitProofs(requests, 1, failAt,
                [calls |-> <<>>, proofs |-> <<>>, error |-> ""], FALSE)

\* genUserStateTransitionProofs with its prover: the object after the call,
\* the error it rejects with, the prover calls made and the proofs returned
genUserStateTransitionProofsWith(u, inputs, failAt) ==
    IF inputs.error # ""
    THEN [u |-> u, error |-> inputs.error, calls |-> <<>>, proofs |-> <<>>]
    ELSE LET st == GenerateProofs(ProverRequests(inputs), failAt)
         IN [u |-> u, error |-> st.error, calls |-> st.calls,
             proofs |-> IF st.error = "" THEN st.proofs ELSE <<>>]

\* ------------------------------------------------------------- genGSTree
\* The GSTLeaf table after the first n events: one row for every event that
\* inserts a leaf, its index counting the leaves of its epoch from 0. The
\* table is a set: it has no order of its own.
GSTLeafTable(n) ==
    {[epoch |-> log[i].epoch,
      index |-> Cardinality({j \in 1..(i - 1) : /\ IsGSTLeafEvent(log[j])
                                                /\ log[j].epoch = log[i].epoch}),
      hash |-> log[i].leaf] : i \in {k \in 1..n : IsGSTLeafEvent(log[k])}}

\* findMany(..., {orderBy: {index: 'asc'}}): the rows by ascending index
RECURSIVE OrderByIndexAsc(_)
OrderByIndexAsc(rows) ==
    IF rows = {} THEN <<>>
    ELSE LET first == CHOOSE r \in rows : \A other \in rows : r.index <= other.index
         IN <<first>> \o OrderByIndexAsc(rows \ {first})

\* An IncrementalMerkleTree is written as the leaves inserted so far: its
\* root is a collision-free hash of exactly this sequence.
EmptyIncrementalMerkleTree == <<>>

insert(tree, leaf) == Append(tree, leaf)

RECURSIVE InsertAll(_, _)
InsertAll(tree, leaves) ==
    IF leaves = <<>> THEN tree
    ELSE InsertAll(insert(tree, Head(leaves).hash), Tail(leaves))

\* genGSTree that reads the leaves of every epoch
genGSTree_everyEpoch(n, epoch) ==
    IF ~_checkValidEpoch(epoch)
    THEN [error |-> "InvalidEpoch", tree |-> EmptyIncrementalMerkleTree]
    ELSE [error |-> "",
          tree |-> InsertAll(EmptyIncrementalMerkleTree,
                             OrderByIndexAsc(GSTLeafTable(n)))]

genGSTree(n, epoch) ==
    IF ~_checkValidEpoch(epoch)
    THEN [error |-> "InvalidEpoch", tree |-> EmptyIncrementalMerkleTree]
    ELSE [error |-> "",
          tree |-> InsertAll(EmptyIncrementalMerkleTree,
                             OrderByIndexAsc({r \in GSTLeafTable(n) :
                                                 r.epoch = epoch}))]

\* ------------------------------------------------ genVerifyEpochKeyProof
\* How genVerifyEpochKeyProof ends and the circuit inputs it hands to the
\* prover (effect "proved").
genVerifyEpochKeyProof(u, n, epochKeyNonce) ==
    LET failed(error) == [u |-> u, error |-> error, effect |-> "none",
                          circuitInputs |-> <<>>]
        epoch == u.latestTransitionedEpoch
    IN IF ~u.hasSignedUp THEN failed("NotSignedUp")
       ELSE IF ~_checkEpkNonce(epochKeyNonce) THEN failed("NonceOutOfRange")
       ELSE IF ~_checkValidEpoch(epoch) THEN failed("InvalidEpoch")
       ELSE [u |-> u, error |-> "", effect |-> "proved",
             circuitInputs |->
                 [GST_root |-> GSTLeaves(n, epoch),
                  identity_nullifier |-> identityNullifier,
                  user_tree_root |-> genUserStateTreeRootOf(u),
                  nonce |-> epochKeyNonce,
                  epoch |-> epoch,
                  epoch_key |-> genEpochKey(epoch, epochKeyNonce)]]

\* the loop over nonceList setting the selectors without counting the
\* nullifiers requested
SelectNonces_countsNone(nonceList, i, st, noDuplicateCheck) ==
    [st EXCEPT !.selectors = [j \in 1..Len(nonceList) |->
                                 IF nonceList[j] # -1 THEN 1 ELSE 0]]

\* ----------------------------------------------- genProveReputationProof
\* The loop over nonceList, i counted from 0: every entry that is not -1 is
\* selected, and one that was selected before fails the call unless the
\* check is left out.
RECURSIVE SelectNonces(_, _, _, _)
SelectNonces(nonceList, i, st, noDuplicateCheck) ==
    IF i >= maxReputationBudget \/ st.error # "" THEN st
    ELSE IF nonceList[i + 1] # -1
    THEN IF nonceList[i + 1] \in st.nonceExist /\ ~noDuplicateCheck
         THEN [st EXCEPT !.error = "DuplicateNullifier"]
         ELSE SelectNonces(nonceList, i + 1,
                  [st EXCEPT !.repNullifiersAmount = @ + 1,
                             !.selectors = Append(@, 1),
                             !.nonceExist = @ \cup {nonceList[i + 1]}],
                  noDuplicateCheck)
    ELSE SelectNonces(nonceList, i + 1,
                      [st EXCEPT !.selectors = Append(@, 0)], noDuplicateCheck)

\* the first reputation nonce below posRep - negRep whose nullifier has not
\* been submitted, or -1; spent are the nonces whose nullifier exists
nonceStarter(rep, spent) ==
    LET free == {x \in 0..(rep.posRep - rep.negRep - 1) : x \notin spent}
    IN IF free = {} THEN -1 ELSE SetMin(free)

\* How genProveReputationProof ends, the object after it and the circuit
\* inputs it hands to the prover (effect "proved").
genProveReputationProofVariant(u, n, attesterId, epkNonce, nonceList, spent, noDuplicateCheck) ==
    LET failed(error) == [u |-> u, error |-> error, effect |-> "none",
                          circuitInputs |-> <<>>]
    IN IF ~u.hasSignedUp THEN failed("NotSignedUp")
       ELSE IF ~_checkEpkNonce(epkNonce) THEN failed("NonceOutOfRange")
       ELSE IF Len(nonceList) # maxReputationBudget THEN failed("NonceListLength")
       ELSE IF ~_checkValidEpoch(u.latestTransitionedEpoch) THEN failed("InvalidEpoch")
       ELSE LET epoch == u.latestTransitionedEpoch
                rep == getRepByAttesterOf(u, attesterId)
                st == SelectNonces(nonceList, 0,
                                   [nonceExist |-> {}, repNullifiersAmount |-> 0,
                                    selectors |-> <<>>, error |-> ""],
                                   noDuplicateCheck)
                starter == nonceStarter(rep, spent)
            IN IF st.error # "" THEN failed(st.error)
               ELSE IF st.repNullifiersAmount > 0 /\ starter = -1
               THEN failed("InsufficientReputation")
               ELSE IF /\ st.repNullifiersAmount > 0
                       /\ ~(starter + st.repNullifiersAmount
                            <= rep.posRep - rep.negRep)
               THEN failed("InsufficientReputation")
               ELSE [u |-> u, error |-> "", effect |-> "proved",
                     circuitInputs |->
                         [epoch |-> epoch,
                          epoch_key_nonce |-> epkNonce,
                          epoch_key |-> genEpochKey(epoch, epkNonce),
                          user_tree_root |-> genUserStateTreeRootOf(u),
                          GST_root |-> GSTLeaves(n, epoch),
                          attester_id |-> attesterId,
                          pos_rep |-> rep.posRep,
                          neg_rep |-> rep.negRep,
                          graffiti |-> rep.graffiti,
                          sign_up |-> rep.signUp,
                          rep_nullifiers_amount |-> st.repNullifiersAmount,
                          selectors |-> st.selectors,
                          rep_nonce |-> nonceList]]

\* genProveReputationProof without the assertion on a nonce requested twice
genProveReputationProof_noDuplicateCheck(u, n, attesterId, epkNonce, nonceList, spent) ==
    genProveReputationProofVariant(u, n, attesterId, epkNonce, nonceList, spent,
                                   TRUE)

genProveReputationProof(u, n, attesterId, epkNonce, nonceList, spent) ==
    genProveReputationProofVariant(u, n, attesterId, epkNonce, nonceList, spent,
                                   FALSE)

\* --------------------------------------- the transition of one epoch
\* What attesters submit to this identity's epoch keys during the epoch it
\* signed up in: rows that differ in attester, amounts, graffiti, the
\* overwriteGraffiti flag, the signUp flag and validity.
SubmittedRows ==
    {Row(Attestation(1, 0, 1, 7, 1), TRUE, TRUE),
     Row(Attestation(1, 1, 0, 9, 0), FALSE, TRUE),
     Row(Attestation(2, 2, 0, 0, 0), TRUE, TRUE),
     Row(Attestation(2, 1, 1, 5, 0), TRUE, FALSE)}

\* the first and the last epoch key nonce
SubmittedNonces == {0, numEpochKeyNoncePerEpoch - 1}

\* the events of an epoch: this identity's sign-up, then the attestations
SubmittedLogs ==
    UNION {[1..(k + 1) ->
               {Event("UserSignedUp", 1, OwnCommitment, 1, amount, 
                      hashLeftRight(OwnCommitment, AirdropUSTRoot(1, amount)),
                      NoKey, NoAttestation, 0) : amount \in AirdropAmounts}
               \cup
               {Event("AttestationSubmitted", 1, "", row.attesterId, 0, ZeroLeaf,
                      genEpochKey(1, nonce), row, 0) :
                   row \in SubmittedRows, nonce \in SubmittedNonces}] :
           k \in 0..MaxAttestations}

\* The identity has signed up in epoch 1 and the Synchronizer has replayed
\* every attestation of the epoch.
InitTransition ==
    /\ log \in {l \in SubmittedLogs :
                   /\ l[1].type = "UserSignedUp"
                   /\ \A i \in 2..Len(l) : l[i].type = "AttestationSubmitted"}
    /\ processed = Len(log)
    /\ LET u == signUp([hasSignedUp |-> FALSE,
                        latestTransitionedEpoch |-> 0,
                        latestGSTLeafIndex |-> 0,
                        latestUserStateLeaves |-> <<>>,
                        heap |-> EmptyHeap,
                        transitionedFromAttestations |-> [k \in {} |-> <<>>],
                        newUserState |-> EmptyNewUserState],
                       1, 1, OwnCommitment, log[1].attesterId, log[1].airdrop).u
       IN /\ hasSignedUp = u.hasSignedUp
          /\ latestTransitionedEpoch = u.latestTransitionedEpoch
          /\ latestGSTLeafIndex = u.latestGSTLeafIndex
          /\ latestUserStateLeaves = u.latestUserStateLeaves
          /\ heap = u.heap
          /\ transitionedFromAttestations = u.transitionedFromAttestations
          /\ newUserState = u.newUserState
    /\ result = [op |-> "signUp", via |-> "event", error |-> "", effect |-> "signedUp"]
    /\ calls = 0

\* epochTransition is called for the epoch, once
StageTransition ==
    /\ newUserState = EmptyNewUserState
    /\ Install("epochTransition", "call",
               epochTransition(Self, processed, latestTransitionedEpoch))
    /\ UNCHANGED <<log, processed, calls>>

\* genUserStateTransitionProofs is called, before or after the staging
ProveTransition ==
    /\ result.op # "genUserStateTransitionProofs"
    /\ LET inputs == genUserStateTransitionProofs(Self, processed)
       IN result' = [op |-> "genUserStateTransitionProofs", via |-> "call",
                     error |-> inputs.error, effect |-> "none",
                     inputs |-> inputs]
    /\ UNCHANGED <<log, processed, hasSignedUp, latestTransitionedEpoch,
                   latestGSTLeafIndex, latestUserStateLeaves, heap,
                   transitionedFromAttestations, newUserState, calls>>

NextTransition ==
    \/ StageTransition
    \/ ProveTransition

SpecTransition == InitTransition /\ [][NextTransition]_vars

\* ------------------------------------------- the transition's proofs
\* no call of genUserStateTransitionProofs makes more prover calls
MaxProverCalls == 2 + numEpochKeyNoncePerEpoch + MaxAttestations

\* genUserStateTransitionProofs is called, once, before or after the
\* staging; the prover rejects call number failAt, or none
ProveWithProver(failAt) ==
    /\ result.op # "genUserStateTransitionProofs"
    /\ \E inputs \in {genUserStateTransitionProofs(Self, processed)} :
       /\ failAt <= (IF inputs.error = "" THEN Len(ProverRequests(inputs))
                     ELSE 0)
       /\ \E g \in {genUserStateTransitionProofsWith(Self, inputs, failAt)} :
          /\ hasSignedUp' = g.u.hasSignedUp
          /\ latestTransitionedEpoch' = g.u.latestTransitionedEpoch
          /\ latestGSTLeafIndex' = g.u.latestGSTLeafIndex
          /\ latestUserStateLeaves' = g.u.latestUserStateLeaves
          /\ heap' = g.u.heap
          /\ transitionedFromAttestations' = g.u.transitionedFromAttestations
          /\ newUserState' = g.u.newUserState
          /\ result' = [op |-> "genUserStateTransitionProofs", via |-> "call",
                        error |-> g.error,
                        effect |-> IF g.error = "" THEN "proved" ELSE "none",
                        failAt |-> failAt,
                        calls |-> [k \in 1..Len(g.calls) |-> g.calls[k].circuit],
                        proofs |-> Len(g.proofs)]
    /\ UNCHANGED <<log, processed, calls>>

NextProver ==
    \/ StageTransition
    \/ \E failAt \in 0..MaxProverCalls : ProveWithProver(failAt)

\* the identity has signed up and at most MaxProvedAttestations
\* attestations went to its epoch keys
InitProver == InitTransition /\ Len(log) <= 1 + MaxProvedAttestations

SpecProver == InitProver /\ [][NextProver]_vars

\* ------------------------------------------------- batches of process proofs
\* The attestations of SubmittedRows the ledger holds as valid and that were
\* submitted with the overwrite flag: up to MaxAttestations of them reach one
\* epoch key, more than one process proof holds.
BatchRows ==
    {row \in SubmittedRows : row.valid /\ row.overwriteGraffiti}

InitBatches ==
    /\ InitTransition
    /\ \A i \in 2..Len(log) : log[i].attestation \in BatchRows

NextBatches ==
    \/ StageTransition
    \/ ProveTransition

SpecBatches == InitBatches /\ [][NextBatches]_vars

\* ----------------------------------------- the object saved and restored
\* the epoch ends, once
RestoreEpochEnded ==
    /\ ChainEpoch(log) = 1
    /\ processed = Len(log)
    /\ Emit(Event("EpochEnded", ChainEpoch(log), "", 0, 0, ZeroLeaf,
                  NoKey, NoAttestation, 0))

\* the ledger accepts the transition of this identity out of the epoch
RestoreOwnTransition ==
    /\ processed = Len(log)
    /\ ChainOwn(log).signedUp
    /\ ChainOwn(log).epoch < ChainEpoch(log)
    /\ Emit(Event("UserStateTransitioned", ChainEpoch(log), OwnCommitment, 0, 0,
                  NextOwnLeaf(log), NoKey, NoAttestation, ChainOwn(log).epoch))

\* the application replaces the object by fromJSON(toJSON(object)), once
Restore ==
    /\ calls = 0
    /\ calls' = calls + 1
    /\ Install("fromJSON", "call", Ret(fromJSON(toJSON(Self)), "", "restored"))
    /\ UNCHANGED <<log, processed>>

InitRestore == Init \/ InitTransition

NextRestore ==
    \/ RestoreEpochEnded
    \/ RestoreOwnTransition
    \/ ApplyEpochEnded
    \/ ApplyUserStateTransitioned
    \/ Restore

SpecRestore == InitRestore /\ [][NextRestore]_vars

\* ------------------------------------------------- reputation proofs
\* entries of a nonceList: not requested (-1), or a reputation nonce
RepNonces == {-1, 0, 1}

\* the nonce lists of a call: of maxReputationBudget entries, or too short
NonceLists ==
    [1..maxReputationBudget -> RepNonces]
    \cup {[i \in 1..(maxReputationBudget - 1) |-> 0]}

\* epkNonce arguments: every nonce, one below the first and one past the last
EpkNonces == -1..numEpochKeyNoncePerEpoch

\* the reputation nonces whose nullifier has been submitted
SpentChoices == {{}, {0}, {1}}

\* a new UserState, or one that has signed up and has seen no attestation
InitReputation == Init \/ (InitTransition /\ Len(log) = 1)

\* the proofs a call asks for
ProofOps == {"genProveReputationProof", "genVerifyEpochKeyProof"}

\* genProveReputationProof is called, once
ProveReputation(attesterId, epkNonce, nonceList, spent) ==
    /\ result.op \notin ProofOps
    /\ LET r == genProveReputationProof(Self, processed, attesterId, epkNonce,
                                        nonceList, spent)
       IN /\ hasSignedUp' = r.u.hasSignedUp
          /\ latestTransitionedEpoch' = r.u.latestTransitionedEpoch
          /\ latestGSTLeafIndex' = r.u.latestGSTLeafIndex
          /\ latestUserStateLeaves' = r.u.latestUserStateLeaves
          /\ heap' = r.u.heap
          /\ transitionedFromAttestations' = r.u.transitionedFromAttestations
          /\ newUserState' = r.u.newUserState
          /\ result' = [op |-> "genProveReputationProof", via |-> "call",
                        error |-> r.error, effect |-> r.effect,
                        attesterId |-> attesterId, epkNonce |-> epkNonce,
                        nonceList |-> nonceList]
    /\ UNCHANGED <<log, processed, calls>>

\* genVerifyEpochKeyProof is called, once
VerifyEpochKey(epkNonce) ==
    /\ result.op \notin ProofOps
    /\ LET r == genVerifyEpochKeyProof(Self, processed, epkNonce)
       IN /\ hasSignedUp' = r.u.hasSignedUp
          /\ latestTransitionedEpoch' = r.u.latestTransitionedEpoch
          /\ latestGSTLeafIndex' = r.u.latestGSTLeafIndex
          /\ latestUserStateLeaves' = r.u.latestUserStateLeaves
          /\ heap' = r.u.heap
          /\ transitionedFromAttestations' = r.u.transitionedFromAttestations
          /\ newUserState' = r.u.newUserState
          /\ result' = [op |-> "genVerifyEpochKeyProof", via |-> "call",
                        error |-> r.error, effect |-> r.effect,
                        attesterId |-> 0, epkNonce |-> epkNonce,
                        nonceList |-> <<>>]
    /\ UNCHANGED <<log, processed, calls>>

NextReputation ==
    \/ \E attesterId \in AttesterIds, epkNonce \in EpkNonces,
          nonceList \in NonceLists, spent \in SpentChoices :
           ProveReputation(attesterId, epkNonce, nonceList, spent)
    \/ \E epkNonce \in EpkNonces : VerifyEpochKey(epkNonce)

SpecReputation == InitReputation /\ [][NextReputation]_vars

\* ------------------------------------------- reputation budget of one attester
\* The identity has signed up through attester 1 and every attestation of
\* the epoch is one of attester 1 to the epoch key of nonce 0; staging the
\* transition folds them into the leaf the airdrop created.
InitBudget ==
    /\ InitBatches
    /\ \A i \in 2..Len(log) :
           /\ log[i].attestation.attesterId = 1
           /\ log[i].epochKey = genEpochKey(1, 0)

NextBudget ==
    \/ StageTransition
    \/ \E attesterId \in AttesterIds, epkNonce \in EpkNonces,
          nonceList \in NonceLists, spent \in SpentChoices :
           ProveReputation(attesterId, epkNonce, nonceList, spent)

SpecBudget == InitBudget /\ [][NextBudget]_vars

\* ----------------------------------------------------- genUserSignUpProof
\* _checkAttesterId with the upper bound only
_checkAttesterId_upperOnly(attesterId) ==
    attesterId < 2 ^ userStateTreeDepth

\* _checkAttesterId: both assertions hold
_checkAttesterId(attesterId) ==
    /\ attesterId > 0
    /\ attesterId < 2 ^ userStateTreeDepth

\* How genUserSignUpProof ends, the object after it and the circuit inputs
\* it hands to the prover (effect "proved").
genUserSignUpProof(u, n, attesterId) ==
    LET failed(error) == [u |-> u, error |-> error, effect |-> "none",
                          circuitInputs |-> <<>>]
        epoch == u.latestTransitionedEpoch
        rep == getRepByAttesterOf(u, attesterId)
    IN IF ~u.hasSignedUp THEN failed("NotSignedUp")
       ELSE IF ~_checkAttesterId(attesterId) THEN failed("InvalidAttesterId")
       ELSE IF ~_checkValidEpoch(epoch) THEN failed("InvalidEpoch")
       ELSE [u |-> u, error |-> "", effect |-> "proved",
             circuitInputs |->
                 [epoch |-> epoch,
                  epoch_key |-> genEpochKey(epoch, 0),
                  identity_nullifier |-> identityNullifier,
                  user_tree_root |-> genUserStateTreeRootOf(u),
                  GST_root |-> GSTLeaves(n, epoch),
                  attester_id |-> attesterId,
                  pos_rep |-> rep.posRep,
                  neg_rep |-> rep.negRep,
                  graffiti |-> rep.graffiti,
                  sign_up |-> rep.signUp]]

\* -------------------------------------------- proof calls before the sign-up
\* attesterId arguments: from below the first id to past the last leaf of
\* the user state tree
ProofAttesterIds == -1..(2 ^ userStateTreeDepth + 1)

\* the nonceList genProveReputationProof takes when none is given
DefaultNonceList == [i \in 1..maxReputationBudget |-> -1]

\* genUserSignUpProof is called
ProveUserSignUp(attesterId) ==
    /\ result.op # "genUserSignUpProof"
    /\ LET r == genUserSignUpProof(Self, processed, attesterId)
       IN result' = [op |-> "genUserSignUpProof", via |-> "call",
                     error |-> r.error, effect |-> r.effect,
                     attesterId |-> attesterId, epkNonce |-> 0,
                     nonceList |-> <<>>]
    /\ UNCHANGED <<log, processed, userVars, calls>>

\* signUp is called by the application, and each method that builds a proof
NextGuards ==
    \/ \E epoch \in Epochs, c \in Commitments, a \in SignUpAttesterIds,
          amount \in AirdropAmounts :
          CallSignUp(epoch, c, a, amount)
    \/ \E attesterId \in AttesterIds, epkNonce \in EpkNonces :
           ProveReputation(attesterId, epkNonce, DefaultNonceList, {})
    \/ \E epkNonce \in EpkNonces : VerifyEpochKey(epkNonce)
    \/ \E attesterId \in ProofAttesterIds : ProveUserSignUp(attesterId)
    \/ ProveTransition

SpecGuards == Init /\ [][NextGuards]_vars

\* ------------------------------------------------ leaving an ended epoch
\* The identity has signed up in epoch 1, which has seen at most one
\* attestation.
InitLive == InitTransition /\ Len(log) <= 2

\* the ledger logs the transition this identity has staged: the event
\* carries the staged leaf and its proof the epoch the identity leaves
LedgerStagedTransition ==
    /\ processed = Len(log)
    /\ hasSignedUp
    /\ newUserState # EmptyNewUserState
    /\ latestTransitionedEpoch < ChainEpoch(log)
    /\ Emit(Event("UserStateTransitioned", ChainEpoch(log), OwnCommitment, 0, 0,
                  newUserState.newGSTLeaf, NoKey, NoAttestation,
                  latestTransitionedEpoch))

\* the identity has signed up, the epoch it is in has ended and nothing is
\* staged
RestagePending ==
    /\ hasSignedUp
    /\ newUserState = EmptyNewUserState
    /\ latestTransitionedEpoch < loadCurrentEpoch

\* the application calls epochTransition for the epoch the identity is in
Restage ==
    /\ RestagePending
    /\ Install("epochTransition", "call",
               epochTransition(Self, processed, latestTransitionedEpoch))
    /\ UNCHANGED <<log, processed, calls>>

\* the application calls userStateTransition with a leaf that is not the
\* staged one, which discards the staged transition
Discard ==
    /\ calls < MaxCalls
    /\ calls' = calls + 1
    /\ newUserState # EmptyNewUserState
    /\ Install("userStateTransition", "call",
               userStateTransition(Self, processed, latestTransitionedEpoch,
                                   OtherLeaf))
    /\ UNCHANGED <<log, processed>>

NextLive ==
    \/ RestoreEpochEnded
    \/ LedgerStagedTransition
    \/ ApplyEpochEnded
    \/ ApplyUserStateTransitioned
    \/ Restage
    \/ Discard
    \/ Restore

\* Fair delivery: every logged event reaches its handler (the provider's
\* listeners run each event once, in log order), and the ledger logs the
\* transition that stays staged. The application does not leave the
\* identity unstaged for ever: this is weak fairness of Restage, written
\* over its enabling condition RestagePending, which every Restage step
\* ends. Discard and Restore carry no fairness condition.
SpecLive ==
    /\ InitLive
    /\ [][NextLive]_vars
    /\ WF_vars(ApplyEpochEnded)
    /\ WF_vars(ApplyUserStateTransitioned)
    /\ WF_vars(LedgerStagedTransition)
    /\ []<>~RestagePending

\* ------------------------------------------------ the handlers of start()
\* loadUSTProof(proofIndex): the valid row of the Proof table, if there is one
loadUSTProof(e) ==
    IF e.fromEpoch = NoProofRecord THEN <<>>
    ELSE <<[publicSignals |-> [fromEpoch |-> e.fromEpoch]]>>

\* a handler's call inside try/catch: what it throws is logged
Caught(r) == [u |-> r.u, error |-> r.error, effect |-> r.effect, escaped |-> FALSE]

UserSignedUpHandler(u, n, e) ==
    Caught(signUp(u, n, e.epoch, e.commitment, e.attesterId, e.airdrop))

EpochEndedHandler(u, n, e) == Caught(epochTransition(u, n, e.epoch))

\* the handler without the comparison of the event's leaf with the staged one
UserStateTransitionedHandler_anyLeaf(u, n, e) ==
    LET proof == loadUSTProof(e)
    IN IF proof = <<>>
       THEN [u |-> u, error |-> "TypeError", effect |-> "none", escaped |-> TRUE]
       ELSE Caught(userStateTransition(u, n, proof[1].publicSignals.fromEpoch,
                                       e.leaf))

\* proof.publicSignals is read outside try/catch, before proof is tested
UserStateTransitionedHandler(u, n, e) ==
    LET proof == loadUSTProof(e)
    IN IF proof = <<>>
       THEN [u |-> u, error |-> "TypeError", effect |-> "none", escaped |-> TRUE]
       ELSE IF e.leaf = u.newUserState.newGSTLeaf
       THEN Caught(userStateTransition(u, n, proof[1].publicSignals.fromEpoch,
                                       e.leaf))
       ELSE Caught(Ret(u, "", "ignored"))

\* the handler UserState registers for an event; it has none for an
\* attestation
Handler(u, n, e) ==
    CASE e.type = "UserSignedUp" -> UserSignedUpHandler(u, n, e)
      [] e.type = "EpochEnded" -> EpochEndedHandler(u, n, e)
      [] e.type = "UserStateTransitioned" -> UserStateTransitionedHandler(u, n, e)
      [] OTHER -> Caught(Ret(u, "", "none"))

EventTypes ==
    {"UserSignedUp", "AttestationSubmitted", "EpochEnded", "UserStateTransitioned"}

\* a UserStateTransitioned event whose proof the Synchronizer found invalid
LedgerUnprovenTransition ==
    /\ CanEmit
    /\ ChainEpoch(log) > 1
    /\ Emit(Event("UserStateTransitioned", ChainEpoch(log), "", 0, 0, OtherLeaf,
                  NoKey, NoAttestation, NoProofRecord))

\* the object after a handler has run for event number index, how the
\* handler ended, and whether this was the event's second delivery
Delivered(r, index, again) ==
    /\ hasSignedUp' = r.u.hasSignedUp
    /\ latestTransitionedEpoch' = r.u.latestTransitionedEpoch
    /\ latestGSTLeafIndex' = r.u.latestGSTLeafIndex
    /\ latestUserStateLeaves' = r.u.latestUserStateLeaves
    /\ heap' = r.u.heap
    /\ transitionedFromAttestations' = r.u.transitionedFromAttestations
    /\ newUserState' = r.u.newUserState
    /\ result' = [op |-> log[index].type, via |-> "event", error |-> r.error,
                  effect |-> r.effect, escaped |-> r.escaped, event |-> index,
                  again |-> again]

\* the next event of the log is stored and handed to its handler
Deliver(type) ==
    /\ NextEventIs(type)
    /\ processed' = processed + 1
    /\ Delivered(Handler(Self, processed + 1, log[processed + 1]),
                 processed + 1, FALSE)
    /\ UNCHANGED <<log, calls>>

\* the event delivered last is delivered once more: its rows are stored
\* already, its handler runs again
Redeliver ==
    /\ result.via = "event"
    /\ ~result.again
    /\ Delivered(Handler(Self, processed, log[processed]), processed, TRUE)
    /\ UNCHANGED <<log, processed, calls>>

NextDelivery ==
    \/ Ledger
    \/ LedgerUnprovenTransition
    \/ \E type \in EventTypes : Deliver(type)
    \/ Redeliver

SpecDelivery == Init /\ [][NextDelivery]_vars

\* --------------------------------------------------------------- claims
\* the reputation ledger by value: the leaves an array of references holds
LedgerOf(h, leaves) == [i \in 1..Len(leaves) |-> h[leaves[i]]]

\* The views of the local tables a method can be called with: the one the
\* application sees between events, and the one a handler sees, which has the
\* rows of the event being handled.
Views == {n \in {processed, processed + 1} : n <= Len(log)}

\* the object after the call has the three committed values replaced by the
\* staged transition
CommitsStaged(after, n) ==
    /\ after.latestTransitionedEpoch = loadCurrentEpoch
    /\ after.latestGSTLeafIndex = getNumGSTLeaves(n, loadCurrentEpoch) - 1
    /\ LedgerOf(after.heap, after.latestUserStateLeaves)
           = LedgerOf(heap, newUserState.newUSTLeaves)

\* the object after the call has the three committed values as they were
KeepsCommitted(after) ==
    /\ after.latestTransitionedEpoch = latestTransitionedEpoch
    /\ after.latestGSTLeafIndex = latestGSTLeafIndex
    /\ LedgerOf(after.heap, after.latestUserStateLeaves)
           = LedgerOf(heap, latestUserStateLeaves)

\* C1 (as stated): userStateTransition(fromEpoch, newLeaf) commits the staged
\* transition if and only if the identity has signed up, fromEpoch is
\* latestTransitionedEpoch and newLeaf is the staged GST leaf; in every other
\* case latestTransitionedEpoch, latestGSTLeafIndex and the ledger are unchanged.
C1_CommitsIffSignedUpEpochAndLeafMatch ==
    \A n \in Views, fromEpoch \in Epochs, GSTLeaf \in LeafChoices :
        LET r == userStateTransition(Self, n, fromEpoch, GSTLeaf)
        IN IF /\ hasSignedUp
              /\ latestTransitionedEpoch = fromEpoch
              /\ GSTLeaf = newUserState.newGSTLeaf
           THEN CommitsStaged(r.u, n)
           ELSE KeepsCommitted(r.u)

\* C1 (amended): userStateTransition(fromEpoch, newLeaf) commits the staged
\* transition if and only if the identity has signed up, fromEpoch is
\* latestTransitionedEpoch, newLeaf is the staged GST leaf and the current
\* epoch is later than latestTransitionedEpoch; in every other case the three
\* committed values are unchanged.
C1_CommitsIffAlsoEpochAdvanced ==
    \A n \in Views, fromEpoch \in Epochs, GSTLeaf \in LeafChoices :
        LET r == userStateTransition(Self, n, fromEpoch, GSTLeaf)
        IN IF /\ hasSignedUp
              /\ latestTransitionedEpoch = fromEpoch
              /\ GSTLeaf = newUserState.newGSTLeaf
              /\ latestTransitionedEpoch < loadCurrentEpoch
           THEN CommitsStaged(r.u, n) /\ r.effect = "committed"
           ELSE KeepsCommitted(r.u) /\ r.effect # "committed"

\* a transition that folded an attestation has been committed
C1_Witness ==
    /\ result.op = "userStateTransition"
    /\ result.effect = "committed"
    /\ latestUserStateLeaves # <<>>

\* C2: every call of userStateTransition, whatever its arguments and however
\* it ends, leaves the staged state empty.
C2_StagedEmptyAfterEveryCall ==
    \A n \in Views, fromEpoch \in Epochs, GSTLeaf \in LeafChoices :
        userStateTransition(Self, n, fromEpoch, GSTLeaf).u.newUserState
            = EmptyNewUserState

\* C3: userStateTransition(fromEpoch, leaf) with fromEpoch other than
\* latestTransitionedEpoch leaves the identity's state unchanged and reports
\* a failure to its caller.
C3_EpochMismatchReportsFailure ==
    \A n \in Views, fromEpoch \in Epochs, GSTLeaf \in LeafChoices :
        LET r == userStateTransition(Self, n, fromEpoch, GSTLeaf)
        IN fromEpoch # latestTransitionedEpoch =>
              /\ r.u.hasSignedUp = hasSignedUp
              /\ KeepsCommitted(r.u)
              /\ r.error # ""

\* C4: epochTransition only stages: whatever its argument, it leaves
\* hasSignedUp, latestTransitionedEpoch, latestGSTLeafIndex and what
\* getRepByAttester returns for every attester as they were.
C4_EpochTransitionOnlyStages ==
    \A n \in Views, epoch \in Epochs :
        LET r == epochTransition(Self, n, epoch)
        IN /\ r.u.hasSignedUp = hasSignedUp
           /\ r.u.latestTransitionedEpoch = latestTransitionedEpoch
           /\ r.u.latestGSTLeafIndex = latestGSTLeafIndex
           /\ \A a \in AttesterIds :
                 getRepByAttesterOf(r.u, a) = getRepByAttester(a)

\* C5: epochTransition(epoch) with epoch other than latestTransitionedEpoch
\* changes nothing, neither the committed nor the staged state, and does not
\* throw.
C5_OtherEpochChangesNothing ==
    \A n \in Views, epoch \in Epochs :
        LET r == epochTransition(Self, n, epoch)
        IN epoch # latestTransitionedEpoch => r.u = Self /\ r.error = ""

\* epochTransition returned without staging while a staged transition of a
\* signed-up identity was waiting
C5_Witness ==
    /\ result.op = "epochTransition"
    /\ result.effect = "none"
    /\ result.error = ""
    /\ hasSignedUp
    /\ newUserState # EmptyNewUserState

\* C6: signUp with a commitment that is not this identity's changes nothing:
\* hasSignedUp, latestTransitionedEpoch, latestGSTLeafIndex, the ledger and
\* the staged state are unchanged.
C6_ForeignSignUpChangesNothing ==
    \A n \in Views, epoch \in Epochs, a \in SignUpAttesterIds,
       amount \in AirdropAmounts :
        LET r == signUp(Self, n, epoch, OtherCommitment, a, amount)
        IN /\ r.u.hasSignedUp = hasSignedUp
           /\ KeepsCommitted(r.u)
           /\ r.u.newUserState = newUserState
           /\ r.error = ""

\* somebody else's sign-up has been replayed to an identity not signed up
C6_Witness ==
    /\ result.op = "signUp"
    /\ result.effect = "none"
    /\ result.error = ""
    /\ ~hasSignedUp
    /\ processed > 0

\* C7: signUp with the identity's own commitment when it has already signed
\* up fails, and leaves latestTransitionedEpoch, latestGSTLeafIndex, the
\* ledger and the staged state unchanged.
C7_SecondSignUpFails ==
    \A n \in Views, epoch \in Epochs, a \in SignUpAttesterIds,
       amount \in AirdropAmounts :
        LET r == signUp(Self, n, epoch, OwnCommitment, a, amount)
        IN hasSignedUp =>
              /\ r.error = "AlreadySignedUp"
              /\ r.u.hasSignedUp
              /\ KeepsCommitted(r.u)
              /\ r.u.newUserState = newUserState

\* a second sign-up was refused while a transition was staged
C7_Witness ==
    /\ result.op = "signUp"
    /\ result.error = "AlreadySignedUp"
    /\ latestUserStateLeaves # <<>>
    /\ newUserState # EmptyNewUserState

\* C8: a successful signUp with an airdrop for attester A leaves exactly one
\* leaf, keyed by A, with posRep the airdrop amount, negRep 0, graffiti 0 and
\* the signUp flag set; a successful signUp without attester or airdrop
\* leaves the ledger empty.
C8_LedgerAfterSignUp ==
    \A n \in Views, epoch \in Epochs, a \in SignUpAttesterIds,
       amount \in AirdropAmounts :
        LET r == signUp(Self, n, epoch, OwnCommitment, a, amount)
        IN r.effect = "signedUp" =>
              LedgerOf(r.u.heap, r.u.latestUserStateLeaves) =
                  IF a # 0 /\ amount # 0
                  THEN <<[attesterId |-> a,
                          reputation |-> [posRep |-> amount, negRep |-> 0,
                                          graffiti |-> 0, signUp |-> 1]]>>
                  ELSE <<>>

\* the last event replayed is of this type and about this identity
LastReplayedIsOwn(type) ==
    /\ processed > 0
    /\ log[processed].type = type
    /\ log[processed].commitment = OwnCommitment

\* C9: once the UserSignedUp event of this identity's commitment in epoch E
\* has been replayed, latestTransitionedEpoch is E and latestGSTLeafIndex is
\* the index, in the global state tree of E, of the leaf
\* hash(commitment, user state tree root); it is index 0 with the empty root
\* when the sign-up is the first leaf of the epoch and has no airdrop.
C9_SignUpEventSetsEpochAndIndex ==
    LastReplayedIsOwn("UserSignedUp") =>
        LET e == log[processed]
            leaves == GSTLeaves(processed, e.epoch)
            root == genUserStateTreeRootOf(Self)
        IN /\ hasSignedUp
           /\ latestTransitionedEpoch = e.epoch
           /\ latestGSTLeafIndex + 1 \in 1..Len(leaves)
           /\ leaves[latestGSTLeafIndex + 1] = hashLeftRight(OwnCommitment, root)
           /\ (Len(leaves) = 1 /\ e.airdrop = 0) =>
                  latestGSTLeafIndex = 0 /\ root = EmptyUSTRoot

\* the identity's sign-up with an airdrop was replayed as the second leaf of
\* its epoch
C9_Witness ==
    /\ LastReplayedIsOwn("UserSignedUp")
    /\ result.effect = "signedUp"
    /\ latestGSTLeafIndex = 1
    /\ latestUserStateLeaves # <<>>

\* the attestations posted to this identity's epoch keys of an epoch
PostedTo(l, epoch) ==
    SelectSeq(l, LAMBDA e : /\ e.type = "AttestationSubmitted"
                            /\ \E nonce \in Nonces :
                                  e.epochKey = genEpochKey(epoch, nonce))

RECURSIVE SumPosted(_, _, _)
SumPosted(events, attesterId, field) ==
    IF events = <<>> THEN 0
    ELSE (IF Head(events).attestation.attesterId = attesterId
          THEN Head(events).attestation[field] ELSE 0)
         + SumPosted(Tail(events), attesterId, field)

\* the UserStateTransitioned event of this identity has been replayed and
\* its staged transition committed
OwnTransitionCommitted ==
    /\ LastReplayedIsOwn("UserStateTransitioned")
    /\ result.op = "userStateTransition"
    /\ result.effect = "committed"

\* C10 (as stated): if an attester posts (p, 0) to an epoch key of the
\* identity's latestTransitionedEpoch, then once that epoch has ended and
\* the staged transition is committed, getRepByAttester of that attester has
\* posRep p and negRep 0, and every other attester reads the default.
C10_OneAttestationReadsBackAlone ==
    OwnTransitionCommitted =>
        LET posted == PostedTo(Applied(processed), log[processed].fromEpoch)
        IN (Len(posted) = 1 /\ posted[1].attestation.negRep = 0) =>
              \A a \in AttesterIds :
                  IF a = posted[1].attestation.attesterId
                  THEN /\ getRepByAttester(a).posRep = posted[1].attestation.posRep
                       /\ getRepByAttester(a).negRep = 0
                  ELSE getRepByAttester(a) = DefaultReputation

\* C10 (amended): once the epoch has ended and the staged transition is
\* committed, getRepByAttester of every attester has the posRep (negRep)
\* recorded for it in the identity's global state tree leaf of that epoch
\* plus the posRep (negRep) the attester posted to the identity's epoch keys
\* of that epoch: (p, 0) for one attestation and the default for the others
\* exactly when the identity held no reputation before.
C10_AttestationsAddToEarlierReputation ==
    OwnTransitionCommitted =>
        LET posted == PostedTo(Applied(processed), log[processed].fromEpoch)
            before == ChainOwn(Applied(processed - 1)).root
        IN \A a \in AttesterIds :
              /\ getRepByAttester(a).posRep
                     = before[a].posRep + SumPosted(posted, a, "posRep")
              /\ getRepByAttester(a).negRep
                     = before[a].negRep + SumPosted(posted, a, "negRep")

\* a transition was committed that added an attestation to an airdrop
C10_Witness ==
    /\ OwnTransitionCommitted
    /\ Len(PostedTo(Applied(processed), log[processed].fromEpoch)) = 1
    /\ getRepByAttester(1).posRep = 3

\* the valid rows of the epoch keys of an epoch, nonce by nonce
RECURSIVE EpochRows(_, _, _)
EpochRows(n, epoch, nonce) ==
    IF nonce >= numEpochKeyNoncePerEpoch THEN <<>>
    ELSE AttestationRows(n, genEpochKey(epoch, nonce))
         \o EpochRows(n, epoch, nonce + 1)

RowsOfAttester(rows, attesterId) ==
    SelectSeq(rows, LAMBDA row : row.attesterId = attesterId)

RECURSIVE SumOf(_, _)
SumOf(rows, field) ==
    IF rows = <<>> THEN 0 ELSE Head(rows)[field] + SumOf(Tail(rows), field)

\* the graffiti of the last row that carries one, or the one given
LastGraffiti(rows, graffiti) ==
    LET carrying == SelectSeq(rows, LAMBDA row : row.graffiti # 0)
    IN IF carrying = <<>> THEN graffiti ELSE carrying[Len(carrying)].graffiti

AnySignUp(rows) == IF \E i \in 1..Len(rows) : rows[i].signUp # 0 THEN 1 ELSE 0

\* the record the staged leaves hold for an attester
StagedRepByAttester(after, attesterId) ==
    getRepByAttesterOf([latestUserStateLeaves |-> after.newUserState.newUSTLeaves,
                        heap |-> after.heap], attesterId)

RECURSIVE Entries(_, _)
Entries(batches, field) ==
    IF batches = <<>> THEN <<>>
    ELSE Head(batches)[field] \o Entries(Tail(batches), field)

\* a field of the real entries (selector 1) of the process inputs, in order
RealEntries(inputs, field) ==
    LET selectors == Entries(inputs.processAttestations, "selectors")
        values == Entries(inputs.processAttestations, field)
        real == SelectSeq([i \in 1..Len(selectors) |-> i],
                          LAMBDA i : selectors[i] = 1)
    IN [k \in 1..Len(real) |-> values[real[k]]]

\* C12: when attestations are folded, an attestation whose overwriteGraffiti
\* flag is unset leaves the graffiti of the record unchanged, and the
\* overwrite_graffities input of each real entry of the process inputs is
\* the overwriteGraffiti flag of its attestation.
C12_GraffitiReplacedOnlyWithFlag ==
    LET rows == EpochRows(processed, latestTransitionedEpoch, 0)
        after == epochTransition(Self, processed, latestTransitionedEpoch).u
        inputs == genUserStateTransitionProofs(Self, processed)
    IN /\ \A a \in AttesterIds :
             (\A i \in 1..Len(rows) :
                 rows[i].attesterId = a => ~rows[i].overwriteGraffiti)
             => StagedRepByAttester(after, a).graffiti = getRepByAttester(a).graffiti
       /\ inputs.error = ""
          => RealEntries(inputs, "overwrite_graffities")
             = [i \in 1..Len(rows) |->
                   IF rows[i].overwriteGraffiti THEN "true" ELSE "false"]

\* the leaves the committed ledger holds for an attester
LeavesOf(attesterId) ==
    {i \in 1..Len(latestUserStateLeaves) :
        heap[latestUserStateLeaves[i]].attesterId = attesterId}

\* C13: getRepByAttester(id) returns the record of the one leaf the committed
\* ledger holds for attester id, and the all-zero default record when it
\* holds none; it returns for every id.
C13_GetRepByAttesterReadsLeafOrDefault ==
    \A a \in AttesterIds \cup {0, 3} :
        /\ Cardinality(LeavesOf(a)) <= 1
        /\ \A i \in LeavesOf(a) :
              getRepByAttester(a) = heap[latestUserStateLeaves[i]].reputation
        /\ LeavesOf(a) = {}
           => getRepByAttester(a) = [posRep |-> 0, negRep |-> 0,
                                     graffiti |-> 0, signUp |-> 0]

\* the committed ledger holds a record with reputation for one attester and
\* no leaf for another
C13_Witness ==
    /\ \E a \in AttesterIds : LeavesOf(a) # {} /\ getRepByAttester(a).posRep > 0
    /\ \E a \in AttesterIds : LeavesOf(a) = {}

\* C14: for the object of every reachable state, fromJSON(toJSON(object))
\* has the same hasSignedUp, latestTransitionedEpoch and latestGSTLeafIndex
\* and a ledger with the same attester ids and the same record for each,
\* also for an object that has never signed up.
C14_RoundTripKeepsCommittedState ==
    LET back == fromJSON(toJSON(Self))
    IN /\ back.hasSignedUp = hasSignedUp
       /\ back.latestTransitionedEpoch = latestTransitionedEpoch
       /\ back.latestGSTLeafIndex = latestGSTLeafIndex
       /\ Len(back.latestUserStateLeaves) = Len(latestUserStateLeaves)
       /\ Range(LedgerOf(back.heap, back.latestUserStateLeaves))
          = Range(LedgerOf(heap, latestUserStateLeaves))

\* an object that signed up without airdrop, with the leaves of two
\* attesters committed by a transition in the order 2, 1 and carrying a
\* graffiti, has been restored
C14_Witness ==
    /\ result.op = "fromJSON"
    /\ hasSignedUp
    /\ latestTransitionedEpoch = 2
    /\ Len(latestUserStateLeaves) = 2
    /\ \E a \in AttesterIds : getRepByAttester(a).graffiti # 0
    /\ log[1].airdrop = 0
    /\ \E i \in 2..processed :
          /\ log[i].type = "AttestationSubmitted"
          /\ log[i].attestation.valid
          /\ log[i].attesterId = 2
          /\ \A j \in 2..(i - 1) : log[j].attesterId # 1

\* the inputs of the proofs as genUserStateTransitionProofs builds them now
ProofInputs == genUserStateTransitionProofs(Self, processed)

\* The output blinded user state of a processAttestations proof: the keyed
\* hash of the last intermediate root of the batch and its to_nonce.
OutputBlindedUserState(batch) ==
    hash5(<<identityNullifier,
            batch.intermediate_user_state_tree_roots[
                Len(batch.intermediate_user_state_tree_roots)],
            batch.epoch, batch.to_nonce>>)

\* C15: the input blinded user state of process batch 0 is the output
\* blinded user state of the start phase, and that of batch i+1 is the
\* output blinded user state of batch i, for every number of attestations
\* of a nonce.
C15_BlindedUserStatesChain ==
    LET inputs == ProofInputs
    IN inputs.error = ""
    => LET batches == inputs.processAttestations
       IN /\ Len(batches) >= numEpochKeyNoncePerEpoch
          /\ batches[1].input_blinded_user_state
             = inputs.startTransition.blindedUserState
          /\ \A i \in 1..(Len(batches) - 1) :
                /\ Len(batches[i].intermediate_user_state_tree_roots)
                   = NUM_ATTESTATIONS_PER_PROOF + 1
                /\ batches[i + 1].input_blinded_user_state
                   = OutputBlindedUserState(batches[i])

\* the inputs were built for an epoch key with more attestations than one
\* proof takes, which change the root from batch to batch
C15_Witness ==
    /\ result.op = "genUserStateTransitionProofs"
    /\ result.error = ""
    /\ Len(result.inputs.processAttestations) > numEpochKeyNoncePerEpoch
    /\ result.inputs.processAttestations[2].input_blinded_user_state
       # result.inputs.processAttestations[1].input_blinded_user_state

\* the valid attestations the ledger logged for the epoch key of a nonce of
\* the epoch being left, in the order of the log
LoggedTo(nonce) ==
    AttestationsTo(SubSeq(log, 1, processed),
                   genEpochKey(latestTransitionedEpoch, nonce))

\* the hash chain of a sequence of attestations, oldest first
RECURSIVE ChainOf(_)
ChainOf(rows) ==
    IF rows = <<>> THEN ZeroLeaf
    ELSE hashLeftRight(AttestationHash(rows[Len(rows)]),
                       ChainOf(SubSeq(rows, 1, Len(rows) - 1)))

\* C16: a padding entry of a process batch has selector 0 and attester id,
\* posRep, negRep, graffiti, overwrite flag and signUp zero; the intermediate
\* root after it is the one before it and the hash chain of its nonce is the
\* one of the real attestations alone; every other entry has selector 1 and
\* there are as many of them as attestations.
C16_PaddingIsNeutral ==
    LET inputs == ProofInputs
    IN inputs.error = ""
    => LET batches == inputs.processAttestations
           results == inputs.finalTransition.hash_chain_results
       IN /\ \A i \in 1..Len(batches) :
                /\ Len(batches[i].selectors) = NUM_ATTESTATIONS_PER_PROOF
                /\ \A j \in 1..NUM_ATTESTATIONS_PER_PROOF :
                      /\ batches[i].selectors[j] \in {0, 1}
                      /\ batches[i].selectors[j] = 0
                         => /\ batches[i].attester_ids[j] = 0
                            /\ batches[i].pos_reps[j] = 0
                            /\ batches[i].neg_reps[j] = 0
                            /\ batches[i].graffities[j] = 0
                            /\ batches[i].overwrite_graffities[j] = "0"
                            /\ batches[i].sign_ups[j] = 0
                            /\ batches[i].intermediate_user_state_tree_roots[j + 1]
                               = batches[i].intermediate_user_state_tree_roots[j]
          /\ \A nonce \in Nonces :
                LET ofNonce == SelectSeq(batches, LAMBDA b : b.to_nonce = nonce)
                IN /\ Len(RealEntries([processAttestations |-> ofNonce],
                                      "selectors"))
                      = Len(LoggedTo(nonce))
                   /\ results[nonce + 1] = ChainOf(LoggedTo(nonce))

\* the inputs built hold a batch with a real entry followed by a padding
\* entry, and a batch of padding entries only
C16_Witness ==
    /\ result.op = "genUserStateTransitionProofs"
    /\ result.error = ""
    /\ \E i \in 1..Len(result.inputs.processAttestations) :
          /\ result.inputs.processAttestations[i].selectors[1] = 1
          /\ result.inputs.processAttestations[i].selectors[
                 NUM_ATTESTATIONS_PER_PROOF] = 0
    /\ \E i \in 1..Len(result.inputs.processAttestations) :
          \A j \in 1..NUM_ATTESTATIONS_PER_PROOF :
              result.inputs.processAttestations[i].selectors[j] = 0

\* the batches before batch i that have its to_nonce
EarlierBatchesOfNonce(batches, i) ==
    {j \in 1..(i - 1) : batches[j].to_nonce = batches[i].to_nonce}

\* the first attestations of a sequence, as many as a number of full batches
\* takes
TakenBy(rows, numBatches) ==
    SubSeq(rows, 1, numBatches * NUM_ATTESTATIONS_PER_PROOF)

\* C17: the hash_chain_starter of the first batch of every epoch key nonce
\* is 0; the starter of a later batch of the nonce is the hash chain of the
\* attestations of the earlier batches of the nonce, each attestation
\* updating it as H(attestationHash, hashChain); hash_chain_results holds one
\* final chain per nonce, the chain of all attestations of the nonce.
C17_HashChainStartsAtZeroPerNonce ==
    LET inputs == ProofInputs
    IN inputs.error = ""
    => LET batches == inputs.processAttestations
           results == inputs.finalTransition.hash_chain_results
       IN /\ \A nonce \in Nonces : \E i \in 1..Len(batches) :
                batches[i].to_nonce = nonce
          /\ \A i \in 1..Len(batches) :
                LET earlier == EarlierBatchesOfNonce(batches, i)
                    rows == LoggedTo(batches[i].to_nonce)
                IN /\ earlier = {} => batches[i].hash_chain_starter = ZeroLeaf
                   /\ Cardinality(earlier) * NUM_ATTESTATIONS_PER_PROOF < Len(rows)
                      \/ earlier = {}
                   /\ batches[i].hash_chain_starter
                      = ChainOf(TakenBy(rows, Cardinality(earlier)))
          /\ Len(results) = numEpochKeyNoncePerEpoch
          /\ \A nonce \in Nonces :
                /\ results[nonce + 1] = ChainOf(LoggedTo(nonce))
                /\ LoggedTo(nonce) # <<>>
                   => results[nonce + 1]
                      = hashLeftRight(
                            AttestationHash(LoggedTo(nonce)[Len(LoggedTo(nonce))]),
                            ChainOf(SubSeq(LoggedTo(nonce), 1,
                                           Len(LoggedTo(nonce)) - 1)))

\* the inputs built hold a second batch of the first nonce, started from
\* the chain of its first batch, and the batch of the last nonce starts at 0
C17_Witness ==
    /\ result.op = "genUserStateTransitionProofs"
    /\ result.error = ""
    /\ Len(result.inputs.processAttestations) > numEpochKeyNoncePerEpoch
    /\ result.inputs.processAttestations[2].to_nonce = 0
    /\ result.inputs.processAttestations[2].hash_chain_starter # ZeroLeaf
    /\ result.inputs.finalTransition.hash_chain_results[1]
       # result.inputs.processAttestations[2].hash_chain_starter
    /\ result.inputs.processAttestations[
           Len(result.inputs.processAttestations)].to_nonce
       = numEpochKeyNoncePerEpoch - 1
    /\ result.inputs.processAttestations[
           Len(result.inputs.processAttestations)].hash_chain_starter = ZeroLeaf

\* the valid attestations the ledger logged for the epoch keys of the epoch
\* being left: nonce by nonce, in the order of the log within a nonce
RECURSIVE LoggedFrom(_)
LoggedFrom(nonce) ==
    IF nonce >= numEpochKeyNoncePerEpoch THEN <<>>
    ELSE LoggedTo(nonce) \o LoggedFrom(nonce + 1)

\* the attesters of a sequence of attestations that are not in a set, each
\* once, in the order of their first attestation
RECURSIVE FirstSeen(_, _)
FirstSeen(rows, seen) ==
    IF rows = <<>> THEN <<>>
    ELSE IF Head(rows).attesterId \in seen THEN FirstSeen(Tail(rows), seen)
    ELSE <<Head(rows).attesterId>>
         \o FirstSeen(Tail(rows), seen \cup {Head(rows).attesterId})

PreTransitionRoot == ChainOwn(SubSeq(log, 1, processed)).root

\* that root after all valid attestations to the epoch keys of the epoch
PostTransitionRoot ==
    TransitionedRoot(SubSeq(log, 1, processed), latestTransitionedEpoch, 0,
                     PreTransitionRoot)

\* C19: in the inputs of the final proof, blinded_user_state[0] is the keyed
\* hash of the pre-transition user state root with nonce 0 and is the output
\* blinded user state of the start phase; blinded_user_state[1] is the keyed
\* hash of the root after all attestations of all nonces with the last nonce
\* and is the output of the last process batch;
\* intermediate_user_state_tree_roots is [pre-transition root,
\* post-transition root].
C19_FinalInputsBindFirstAndLast ==
    LET inputs == ProofInputs
    IN inputs.error = ""
    => LET final == inputs.finalTransition
           batches == inputs.processAttestations
       IN /\ final.blinded_user_state[1]
             = hash5(<<identityNullifier, PreTransitionRoot,
                       latestTransitionedEpoch, 0>>)
          /\ final.blinded_user_state[1]
             = inputs.startTransition.blindedUserState
          /\ final.blinded_user_state[2]
             = hash5(<<identityNullifier, PostTransitionRoot,
                       latestTransitionedEpoch, numEpochKeyNoncePerEpoch - 1>>)
          /\ final.blinded_user_state[2]
             = OutputBlindedUserState(batches[Len(batches)])
          /\ final.intermediate_user_state_tree_roots
             = <<PreTransitionRoot, PostTransitionRoot>>

\* a nonce that is not -1 is at two places of the list
RequestedTwice(nonceList) ==
    \E i, j \in 1..Len(nonceList) :
        i < j /\ nonceList[i] # -1 /\ nonceList[i] = nonceList[j]

\* C20 as stated: whenever a nonce is requested twice in nonceList,
\* genProveReputationProof fails with DuplicateNullifier, before the prover
\* is invoked and without changing state.
C20_DuplicateNonceFailsWithDuplicateNullifier ==
    \A attesterId \in AttesterIds, epkNonce \in EpkNonces,
       nonceList \in NonceLists, spent \in SpentChoices :
        LET r == genProveReputationProof(Self, processed, attesterId, epkNonce,
                                         nonceList, spent)
        IN RequestedTwice(nonceList)
           => /\ r.error = "DuplicateNullifier"
              /\ r.effect # "proved"
              /\ r.u = Self

\* C20 amended: whenever a nonce is requested twice in nonceList,
\* genProveReputationProof fails before the prover is invoked and without
\* changing state; it fails with DuplicateNullifier when the user has signed
\* up, epkNonce is in range and nonceList has maxReputationBudget entries,
\* and with the error of the failing one of these checks otherwise.
C20_DuplicateNonceFails ==
    \A attesterId \in AttesterIds, epkNonce \in EpkNonces,
       nonceList \in NonceLists, spent \in SpentChoices :
        LET r == genProveReputationProof(Self, processed, attesterId, epkNonce,
                                         nonceList, spent)
        IN RequestedTwice(nonceList)
           => /\ r.error # ""
              /\ r.effect # "proved"
              /\ r.u = Self
              /\ r.error = "DuplicateNullifier"
                 <=> /\ hasSignedUp
                     /\ epkNonce < numEpochKeyNoncePerEpoch
                     /\ Len(nonceList) = maxReputationBudget

\* a call with a nonce requested twice, for an attester whose reputation
\* covers two nullifiers, has failed with DuplicateNullifier
C20_Witness ==
    /\ result.op = "genProveReputationProof"
    /\ result.error = "DuplicateNullifier"
    /\ RequestedTwice(result.nonceList)
    /\ getRepByAttester(result.attesterId).posRep
       - getRepByAttester(result.attesterId).negRep >= 2

\* two nonce lists request a common reputation nonce
Overlapping(first, second) ==
    \E i \in 1..Len(first), j \in 1..Len(second) :
        first[i] # -1 /\ first[i] = second[j]

\* C21: once a call of genProveReputationProof has succeeded, a second call
\* for the same attester whose nonceList overlaps the first one's fails with
\* DuplicateNullifier, whether or not the nullifiers of the first proof have
\* been submitted in between.
C21_SecondOverlappingCallFails ==
    (result.op = "genProveReputationProof" /\ result.effect = "proved")
    => \A nonceList \in NonceLists, spent \in SpentChoices :
           Overlapping(result.nonceList, nonceList)
           => genProveReputationProof(Self, processed, result.attesterId,
                                      result.epkNonce, nonceList, spent).error
              = "DuplicateNullifier"

\* the number of reputation nullifiers a nonceList requests
Requested(nonceList) ==
    Cardinality({i \in 1..Len(nonceList) : nonceList[i] # -1})

\* the k reputation nonces from start on are inside [0, posRep - negRep) and
\* none of them is spent
ConsecutiveUnspent(rep, spent, start, k) ==
    \A x \in start..(start + k - 1) :
        x \in 0..(rep.posRep - rep.negRep - 1) /\ x \notin spent

\* C22: a call of genProveReputationProof that passes the earlier checks and
\* requests k >= 1 nullifiers fails with InsufficientReputation unless k
\* consecutive unspent nonces exist inside [0, posRep - negRep), and when it
\* succeeds none of the k nonces from the chosen starter on is spent.
C22_SucceedsOnlyWithConsecutiveUnspentNonces ==
    \A attesterId \in AttesterIds, epkNonce \in Nonces,
       nonceList \in NonceLists, spent \in SpentChoices :
        LET r == genProveReputationProof(Self, processed, attesterId, epkNonce,
                                        nonceList, spent)
            rep == getRepByAttester(attesterId)
            k == Requested(nonceList)
        IN (/\ hasSignedUp
            /\ Len(nonceList) = maxReputationBudget
            /\ ~RequestedTwice(nonceList)
            /\ k >= 1)
           => /\ (~\E start \in 0..(rep.posRep - rep.negRep - 1) :
                      ConsecutiveUnspent(rep, spent, start, k))
                 => r.error = "InsufficientReputation"
              /\ r.error = ""
                 => ConsecutiveUnspent(rep, spent, nonceStarter(rep, spent), k)

\* C23: for a user that has signed up, genVerifyEpochKeyProof and
\* genProveReputationProof fail with NonceOutOfRange, without reaching the
\* prover, for every epoch-key nonce outside [0, numEpochKeyNoncePerEpoch),
\* negative ones included, and do not fail so for a nonce inside it.
C23_EpkNonceOutsideRangeRejected ==
    \A epkNonce \in EpkNonces :
        LET v == genVerifyEpochKeyProof(Self, processed, epkNonce)
        IN hasSignedUp
           => /\ epkNonce \notin Nonces
                 => v.error = "NonceOutOfRange" /\ v.effect # "proved"
              /\ epkNonce \in Nonces => v.error = "" /\ v.effect = "proved"
              /\ \A attesterId \in AttesterIds, nonceList \in NonceLists,
                    spent \in SpentChoices :
                     LET r == genProveReputationProof(Self, processed,
                                  attesterId, epkNonce, nonceList, spent)
                     IN /\ epkNonce \notin Nonces
                           => r.error = "NonceOutOfRange" /\ r.effect # "proved"
                        /\ epkNonce \in Nonces => r.error # "NonceOutOfRange"

\* C24: delivering an event a second time right after its first delivery
\* leaves hasSignedUp, latestTransitionedEpoch, latestGSTLeafIndex, the
\* reputation ledger and the staged newGSTLeaf and newUSTLeaves as the first
\* delivery left them.
C24_RedeliveryChangesNothing ==
    (result.via = "event" /\ ~result.again)
    => LET again == Handler(Self, processed, log[processed]).u
       IN /\ again.hasSignedUp = hasSignedUp
          /\ again.latestTransitionedEpoch = latestTransitionedEpoch
          /\ again.latestGSTLeafIndex = latestGSTLeafIndex
          /\ LedgerOf(again.heap, again.latestUserStateLeaves)
             = LedgerOf(heap, latestUserStateLeaves)
          /\ again.newUserState.newGSTLeaf = newUserState.newGSTLeaf
          /\ LedgerOf(again.heap, again.newUserState.newUSTLeaves)
             = LedgerOf(heap, newUserState.newUSTLeaves)

\* C25: whatever goes wrong while a UserSignedUp, EpochEnded or
\* UserStateTransitioned event is applied is caught inside the handler and
\* never escapes it.
C25_HandlerErrorsNeverEscape ==
    processed < Len(log)
    => ~Handler(Self, processed + 1, log[processed + 1]).escaped

\* a call of userStateTransition that commits sets latestTransitionedEpoch
\* to the current epoch, which is later than its value before; one that
\* does not commit leaves it alone; a commit into the same epoch is refused
TransitionMovesEpochForward ==
    \A n \in Views, fromEpoch \in Epochs, GSTLeaf \in LeafChoices :
        LET r == userStateTransition(Self, n, fromEpoch, GSTLeaf)
        IN /\ r.effect = "committed"
              => /\ r.u.latestTransitionedEpoch = loadCurrentEpoch
                 /\ r.u.latestTransitionedEpoch > latestTransitionedEpoch
           /\ r.effect # "committed"
              => r.u.latestTransitionedEpoch = latestTransitionedEpoch
           /\ (/\ hasSignedUp
               /\ fromEpoch = latestTransitionedEpoch
               /\ GSTLeaf = newUserState.newGSTLeaf
               /\ loadCurrentEpoch = latestTransitionedEpoch)
              => r.error = "SameEpoch" /\ r.effect # "committed"

\* C26: a commit of userStateTransition moves latestTransitionedEpoch to the
\* current epoch, strictly later than before (a commit into the same epoch
\* is refused), and no call of signUp, epochTransition or
\* userStateTransition ever makes latestTransitionedEpoch smaller.
C26_TransitionedEpochNeverDecreases ==
    /\ TransitionMovesEpochForward
    /\ \A n \in Views, epoch \in Epochs :
           epochTransition(Self, n, epoch).u.latestTransitionedEpoch
               >= latestTransitionedEpoch
    /\ \A n \in Views, epoch \in Epochs, c \in Commitments,
          a \in SignUpAttesterIds, amount \in AirdropAmounts :
           signUp(Self, n, epoch, c, a, amount).u.latestTransitionedEpoch
               >= latestTransitionedEpoch

\* the tree built by replaying, in log order, the leaf insertions of an
\* epoch among the events of l
RECURSIVE ReplayLeafInsertions(_, _)
ReplayLeafInsertions(l, epoch) ==
    IF l = <<>> THEN EmptyIncrementalMerkleTree
    ELSE LET e == l[Len(l)]
             before == ReplayLeafInsertions(SubSeq(l, 1, Len(l) - 1), epoch)
         IN IF IsGSTLeafEvent(e) /\ e.epoch = epoch
            THEN insert(before, e.leaf)
            ELSE before

\* C27: for a valid epoch genGSTree(epoch) inserts exactly the stored GST
\* leaves of that epoch, by ascending index, into an empty tree: its root is
\* the root of the tree built by replaying the epoch's leaf insertions in
\* log order, it holds as many leaves as the table has rows of the epoch,
\* and an epoch that is not valid is refused.
C27_GenGSTreeReplaysEpochLeaves ==
    \A n \in Views, epoch \in Epochs :
        LET r == genGSTree(n, epoch)
        IN IF _checkValidEpoch(epoch)
           THEN /\ r.error = ""
                /\ r.tree = ReplayLeafInsertions(Applied(n), epoch)
                /\ Len(r.tree)
                   = Cardinality({row \in GSTLeafTable(n) : row.epoch = epoch})
                /\ \A i \in 1..Len(r.tree) :
                       [epoch |-> epoch, index |-> i - 1, hash |-> r.tree[i]]
                           \in GSTLeafTable(n)
           ELSE r.error = "InvalidEpoch"

\* the tree of an epoch with two leaves has been rebuilt while another
\* epoch has a leaf too
C27_Witness ==
    /\ Len(genGSTree(processed, 1).tree) = 2
    /\ genGSTree(processed, 1).tree[1] # genGSTree(processed, 1).tree[2]
    /\ Len(genGSTree(processed, 2).tree) = 1

\* right after a commit: the leaf that was staged, hash(commitment, root of
\* the leaves now committed)
PreviouslyStagedLeaf ==
    hashLeftRight(OwnCommitment, genUserStateTreeRootOf(Self))

\* C28: a call of userStateTransition that has committed or discarded the
\* staged transition leaves nothing staged; while nothing is staged no call
\* of userStateTransition carrying a leaf that was staged before commits
\* anything, and no call other than epochTransition for
\* latestTransitionedEpoch stages anything.
C28_StagedTransitionIsOneShot ==
    /\ (/\ result.op = "UserStateTransitioned"
        /\ result.error = ""
        /\ result.effect # "ignored")
       => newUserState = EmptyNewUserState
    /\ newUserState = EmptyNewUserState
       => /\ \A n \in Views, fromEpoch \in Epochs,
                GSTLeaf \in (LeafChoices \cup {PreviouslyStagedLeaf})
                            \ {ZeroLeaf} :
                 LET r == userStateTransition(Self, n, fromEpoch, GSTLeaf)
                 IN /\ r.effect # "committed"
                    /\ KeepsCommitted(r.u)
                    /\ r.u.newUserState = EmptyNewUserState
          /\ \A n \in Views, epoch \in Epochs :
                 LET r == epochTransition(Self, n, epoch)
                 IN r.u.newUserState # EmptyNewUserState
                    => epoch = latestTransitionedEpoch /\ r.effect = "staged"
          /\ \A n \in Views, epoch \in Epochs, c \in Commitments,
                a \in SignUpAttesterIds, amount \in AirdropAmounts :
                 signUp(Self, n, epoch, c, a, amount).u.newUserState
                     = EmptyNewUserState

\* the handler has just committed the staged transition with the leaf of
\* its event, which folded an attestation, and nothing is staged any more
C28_Witness ==
    /\ result.op = "UserStateTransitioned"
    /\ result.effect = "committed"
    /\ ~result.again
    /\ log[processed].leaf = PreviouslyStagedLeaf
    /\ latestUserStateLeaves # <<>>
    /\ newUserState = EmptyNewUserState

\* C29: genUserStateTransitionProofs calls the prover for startTransition,
\* then for the processAttestations batches in index order, then for
\* userStateTransition, each once; when a call rejects, the error is the
\* prover's, the call is not made again, no later call is made, no proof is
\* returned, and in every case the UserState is as it was.
C29_ProverCalledInOrderOnce ==
    LET inputs == genUserStateTransitionProofs(Self, processed)
    IN inputs.error = ""
       => LET requests == ProverRequests(inputs)
              batches == inputs.processAttestations
              N == Len(requests)
          IN /\ N = Len(batches) + 2
             /\ requests[1].circuit = "startTransition"
             /\ \A i \in 1..Len(batches) :
                    /\ requests[i + 1].circuit = "processAttestations"
                    /\ requests[i + 1].inputs = batches[i]
             /\ requests[N].circuit = "userStateTransition"
             /\ \A failAt \in 0..N :
                    LET g == genUserStateTransitionProofsWith(Self, inputs, failAt)
                        last == IF failAt = 0 THEN N ELSE failAt
                    IN /\ g.calls = SubSeq(requests, 1, last)
                       /\ failAt # 0 => g.error = ProverError /\ g.proofs = <<>>
                       /\ failAt = 0
                          => /\ g.error = ""
                             /\ Len(g.proofs) = N
                             /\ \A k \in 1..N :
                                    g.proofs[k].circuit = requests[k].circuit
                       /\ g.u = Self

\* a call whose second processAttestations proof was rejected: three prover
\* calls were made, and at least one more would have followed
C29_Witness ==
    /\ result.op = "genUserStateTransitionProofs"
    /\ result.error = ProverError
    /\ result.failAt = 3
    /\ result.calls = <<"startTransition", "processAttestations",
                        "processAttestations">>
    /\ result.proofs = 0
    /\ Len(genUserStateTransitionProofs(Self, processed).processAttestations) >= 2

\* C30: epochTransition(latestTransitionedEpoch) stages the committed
\* leaves as they were before the call, in their order, followed by one new
\* leaf for every attester seen for the first time, each holding its record
\* with the valid attestations of nonces 0..numEpochKeyNoncePerEpoch-1
\* folded in once, in order; the staged newGSTLeaf is hash(commitment, root
\* of the sparse tree of those leaves).
C30_StagedLeavesFoldSnapshotOnce ==
    LET r == epochTransition(Self, processed, latestTransitionedEpoch)
        before == LedgerOf(heap, latestUserStateLeaves)
        staged == LedgerOf(r.u.heap, r.u.newUserState.newUSTLeaves)
        rows == EpochRows(processed, latestTransitionedEpoch, 0)
        had == {before[i].attesterId : i \in 1..Len(before)}
        new == FirstSeen(rows, had)
        root == ApplyAttestations(rows, genUserStateTreeRootOf(Self))
    IN hasSignedUp
       => /\ r.effect = "staged"
          /\ Len(staged) = Len(before) + Len(new)
          /\ \A i \in 1..Len(before) :
                 /\ staged[i].attesterId = before[i].attesterId
                 /\ staged[i].reputation
                    = ApplyAttestations(RowsOfAttester(rows, before[i].attesterId),
                                        [a \in AttesterIds |-> before[i].reputation])
                          [before[i].attesterId]
          /\ \A j \in 1..Len(new) :
                 /\ staged[Len(before) + j].attesterId = new[j]
                 /\ staged[Len(before) + j].reputation
                    = ApplyAttestations(RowsOfAttester(rows, new[j]),
                                        EmptyUSTRoot)[new[j]]
          /\ _genUserStateTreeFromLeaves(r.u.heap, r.u.newUserState.newUSTLeaves)
             = root
          /\ r.u.newUserState.newGSTLeaf = hashLeftRight(OwnCommitment, root)

\* staged: the airdrop leaf of attester 1 with an attestation folded in and
\* a new leaf for attester 2, from attestations to both epoch keys
C30_Witness ==
    /\ result.op = "epochTransition"
    /\ result.effect = "staged"
    /\ Len(latestUserStateLeaves) = 1
    /\ Len(newUserState.newUSTLeaves) = 2
    /\ heap[newUserState.newUSTLeaves[1]].attesterId = 1
    /\ heap[newUserState.newUSTLeaves[2]].attesterId = 2
    /\ \A nonce \in SubmittedNonces :
           AttestationRows(processed, genEpochKey(1, nonce)) # <<>>
    /\ newUserState.newGSTLeaf
       = hashLeftRight(OwnCommitment,
                       _genUserStateTreeFromLeaves(heap, newUserState.newUSTLeaves))

\* the process batches of the last call of genUserStateTransitionProofs
ProcessBatches == result.inputs.processAttestations

\* the last operation was a call of genUserStateTransitionProofs that built
\* its inputs
ProofsBuilt ==
    /\ result.op = "genUserStateTransitionProofs"
    /\ result.error = ""

\* C31: among the process batches, batch 0 has from_nonce = to_nonce = 0; a
\* batch that continues the nonce of the batch before it has from_nonce =
\* to_nonce = that nonce and its input blinded user state is the hash of the
\* identity nullifier, the root the batch starts from, the epoch and that
\* nonce; the first batch of a nonce k > 0 has from_nonce = k - 1 and
\* to_nonce = k; to_nonce never decreases, takes every nonce and ends at
\* numEpochKeyNoncePerEpoch - 1.
C31_BatchNoncesChainAcrossBoundaries ==
    ProofsBuilt =>
        LET b == ProcessBatches
        IN /\ Len(b) >= 1
           /\ b[1].from_nonce = 0
           /\ b[1].to_nonce = 0
           /\ \A i \in 2..Len(b) :
                  /\ b[i].to_nonce >= b[i - 1].to_nonce
                  /\ IF b[i].to_nonce = b[i - 1].to_nonce
                     THEN /\ b[i].from_nonce = b[i].to_nonce
                          /\ b[i].input_blinded_user_state
                             = hash5(<<identityNullifier,
                                       b[i].intermediate_user_state_tree_roots[1],
                                       latestTransitionedEpoch, b[i].to_nonce>>)
                     ELSE /\ b[i].to_nonce = b[i - 1].to_nonce + 1
                          /\ b[i].from_nonce = b[i].to_nonce - 1
           /\ b[Len(b)].to_nonce = numEpochKeyNoncePerEpoch - 1
           /\ {b[i].to_nonce : i \in 1..Len(b)} = Nonces

\* inputs were built for an epoch in which more attestations than one proof
\* holds reached the epoch key of nonce 0 and the last nonce got none
C31_Witness ==
    /\ ProofsBuilt
    /\ Len(LoggedTo(0)) > NUM_ATTESTATIONS_PER_PROOF
    /\ LoggedTo(numEpochKeyNoncePerEpoch - 1) = <<>>
    /\ Len(ProcessBatches) > numEpochKeyNoncePerEpoch
    /\ ProcessBatches[2].to_nonce = 0
    /\ ProcessBatches[2].from_nonce = 0
    /\ ProcessBatches[Len(ProcessBatches)].from_nonce = numEpochKeyNoncePerEpoch - 2

\* the arrays genUserStateTransitionProofs has filled when its loop over the
\* nonces ends, for the state as it is
FilledArrays ==
    LET start == _genStartTransitionCircuitInputs(
                     Self, 0, genUserStateTreeRootOf(Self),
                     GSTLeaves(processed, latestTransitionedEpoch))
    IN ProcessNonces(Self, processed, 0, ProofArrays(Self, start))

\* max(1, ceil(n / NUM_ATTESTATIONS_PER_PROOF)) summed over the attestation
\* counts n of the nonces from nonce on
RECURSIVE ExpectedBatches(_)
ExpectedBatches(nonce) ==
    IF nonce >= numEpochKeyNoncePerEpoch THEN 0
    ELSE LET count == Len(LoggedTo(nonce))
             batches == (count + NUM_ATTESTATIONS_PER_PROOF - 1)
                        \div NUM_ATTESTATIONS_PER_PROOF
         IN (IF batches < 1 THEN 1 ELSE batches) + ExpectedBatches(nonce + 1)

\* the fields of a process batch that hold one entry per attestation
EntryFields ==
    {"old_pos_reps", "old_neg_reps", "old_graffities", "old_sign_ups",
     "attester_ids", "pos_reps", "neg_reps", "graffities",
     "overwrite_graffities", "sign_ups", "selectors"}

\* C32: genUserStateTransitionProofs builds as many process batches as the
\* sum over the nonces of max(1, ceil(n_k / NUM_ATTESTATIONS_PER_PROOF));
\* fromNonces, toNonces and hashChainStarter have that length and
\* blindedUserState one more; every batch holds NUM_ATTESTATIONS_PER_PROOF
\* entries in each field and NUM_ATTESTATIONS_PER_PROOF + 1 intermediate
\* roots, the last root of a batch being the first root of the next; the
\* real entries of the batches of a nonce are the attestations of that nonce.
C32_BatchCountAndShape ==
    ProofsBuilt =>
        LET b == ProcessBatches
            acc == FilledArrays
        IN /\ Len(b) = ExpectedBatches(0)
           /\ Len(acc.fromNonces) = Len(b)
           /\ Len(acc.toNonces) = Len(b)
           /\ Len(acc.hashChainStarter) = Len(b)
           /\ Len(acc.blindedUserState) = Len(b) + 1
           /\ \A i \in 1..Len(b) :
                  /\ \A field \in EntryFields :
                         Len(b[i][field]) = NUM_ATTESTATIONS_PER_PROOF
                  /\ Len(b[i].intermediate_user_state_tree_roots)
                     = NUM_ATTESTATIONS_PER_PROOF + 1
                  /\ i < Len(b) =>
                         b[i].intermediate_user_state_tree_roots
                             [NUM_ATTESTATIONS_PER_PROOF + 1]
                         = b[i + 1].intermediate_user_state_tree_roots[1]
           /\ \A nonce \in Nonces :
                  LET ofNonce == [processAttestations |->
                                     SelectSeq(b, LAMBDA x : x.to_nonce = nonce)]
                      logged == LoggedTo(nonce)
                  IN /\ RealEntries(ofNonce, "attester_ids")
                        = [k \in 1..Len(logged) |-> logged[k].attesterId]
                     /\ RealEntries(ofNonce, "pos_reps")
                        = [k \in 1..Len(logged) |-> logged[k].posRep]
                     /\ RealEntries(ofNonce, "neg_reps")
                        = [k \in 1..Len(logged) |-> logged[k].negRep]
                     /\ RealEntries(ofNonce, "graffities")
                        = [k \in 1..Len(logged) |-> logged[k].graffiti]

\* inputs were built for an epoch in which more attestations than one proof
\* holds reached one epoch key, with a batch that is partly blank data
C32_Witness ==
    /\ ProofsBuilt
    /\ \E nonce \in SubmittedNonces :
           Len(LoggedTo(nonce)) > NUM_ATTESTATIONS_PER_PROOF
    /\ Len(ProcessBatches) = ExpectedBatches(0)
    /\ Len(ProcessBatches) > numEpochKeyNoncePerEpoch
    /\ \E i \in 1..Len(ProcessBatches) :
           /\ ProcessBatches[i].selectors[1] = 1
           /\ ProcessBatches[i].selectors[NUM_ATTESTATIONS_PER_PROOF] = 0

\* posRep - negRep of the attester of the last call of genProveReputationProof
CalledNetReputation ==
    getRepByAttester(result.attesterId).posRep
    - getRepByAttester(result.attesterId).negRep

\* the last call of genProveReputationProof got past the sign-up check and
\* the check of the epoch key nonce
PassedEarlierChecks ==
    /\ hasSignedUp
    /\ _checkEpkNonce(result.epkNonce)
    /\ _checkValidEpoch(latestTransitionedEpoch)

\* C33: a call of genProveReputationProof that requests at least one
\* nullifier for an attester with posRep - negRep <= 0 fails without proving,
\* with InsufficientReputation when the earlier checks pass and no nonce is
\* requested twice; a call that requests no nullifier and passes the earlier
\* checks succeeds whatever the reputation and the spent nullifiers are; a
\* call with a nonceList of another length than maxReputationBudget fails,
\* with NonceListLength when the user has signed up and epkNonce passes.
C33_BudgetCheckedOnlyWhenNullifiersRequested ==
    result.op = "genProveReputationProof" =>
        /\ (Requested(result.nonceList) >= 1 /\ CalledNetReputation <= 0)
           => /\ result.error # ""
              /\ result.effect # "proved"
              /\ (/\ PassedEarlierChecks
                  /\ Len(result.nonceList) = maxReputationBudget
                  /\ ~RequestedTwice(result.nonceList))
                 => result.error = "InsufficientReputation"
        /\ (/\ Requested(result.nonceList) = 0
            /\ Len(result.nonceList) = maxReputationBudget
            /\ PassedEarlierChecks)
           => /\ result.error = ""
              /\ result.effect = "proved"
        /\ Len(result.nonceList) # maxReputationBudget
           => /\ result.error # ""
              /\ result.effect # "proved"
              /\ (hasSignedUp /\ _checkEpkNonce(result.epkNonce))
                 => result.error = "NonceListLength"

\* a call that requested a nullifier for an attester whose negRep exceeds its
\* posRep has failed with InsufficientReputation
C33_Witness ==
    /\ result.op = "genProveReputationProof"
    /\ Requested(result.nonceList) >= 1
    /\ CalledNetReputation < 0
    /\ result.error = "InsufficientReputation"

\* a call has failed with NotSignedUp: it handed nothing to the prover and
\* the object is as it was
FailsNotSignedUp(r) ==
    /\ r.error = "NotSignedUp"
    /\ r.effect = "none"
    /\ r.u = Self

\* C34: while hasSignedUp is false, genVerifyEpochKeyProof,
\* genProveReputationProof, genUserSignUpProof and
\* genUserStateTransitionProofs fail with NotSignedUp for every argument,
\* hand nothing to the prover and leave the UserState as it is; once signed
\* up, genUserSignUpProof fails with InvalidAttesterId for every attesterId
\* outside (0, 2^userStateTreeDepth), again without a change.
C34_ProofMethodsRequireSignUp ==
    \A n \in Views :
        /\ ~hasSignedUp =>
            /\ \A epkNonce \in EpkNonces :
                   FailsNotSignedUp(genVerifyEpochKeyProof(Self, n, epkNonce))
            /\ \A attesterId \in AttesterIds, epkNonce \in EpkNonces,
                  nonceList \in NonceLists, spent \in SpentChoices :
                   FailsNotSignedUp(genProveReputationProof(
                       Self, n, attesterId, epkNonce, nonceList, spent))
            /\ \A attesterId \in ProofAttesterIds :
                   FailsNotSignedUp(genUserSignUpProof(Self, n, attesterId))
            /\ genUserStateTransitionProofs(Self, n) = [error |-> "NotSignedUp"]
        /\ hasSignedUp =>
            \A attesterId \in ProofAttesterIds :
                LET r == genUserSignUpProof(Self, n, attesterId)
                IN IF attesterId > 0 /\ attesterId < 2 ^ userStateTreeDepth
                   THEN r.error # "InvalidAttesterId"
                   ELSE /\ r.error = "InvalidAttesterId"
                        /\ r.effect = "none"
                        /\ r.u = Self

\* genUserSignUpProof has failed with NotSignedUp on an object a failed
\* signUp has left a leaf in
C34_Witness ==
    /\ result.op = "genUserSignUpProof"
    /\ result.error = "NotSignedUp"
    /\ ~hasSignedUp
    /\ latestUserStateLeaves # <<>>

\* a UserStateTransitioned event of the open epoch carrying a leaf, with the
\* proof record of a transition from fromEpoch or with none
TransitionEvent(leaf, fromEpoch) ==
    Event("UserStateTransitioned", ChainEpoch(log), "", 0, 0, leaf, NoKey,
          NoAttestation, fromEpoch)

\* C35: the handler of UserStateTransitioned, run for an event whose GST
\* leaf is not the staged leaf (the leaf of another identity, another leaf of
\* this identity, any leaf of the log), leaves the committed state and the
\* staged transition as they are, and hands nothing to userStateTransition.
C35_OtherLeafEventIgnored ==
    \A n \in Views :
        /\ \A leaf \in LeafChoices, fromEpoch \in Epochs \cup {NoProofRecord} :
               leaf # newUserState.newGSTLeaf
               => LET r == Handler(Self, n, TransitionEvent(leaf, fromEpoch))
                  IN /\ r.u = Self
                     /\ r.effect \in {"ignored", "none"}
                     /\ r.effect = "ignored" <=> fromEpoch # NoProofRecord
        /\ \A i \in 1..n :
               (/\ log[i].type = "UserStateTransitioned"
                /\ log[i].leaf # newUserState.newGSTLeaf)
               => Handler(Self, n, log[i]).u = Self

\* the handler has ignored the event of another leaf while a transition is
\* staged
C35_Witness ==
    /\ result.op = "UserStateTransitioned"
    /\ result.via = "event"
    /\ result.effect = "ignored"
    /\ newUserState.newGSTLeaf # ZeroLeaf
    /\ newUserState.newUSTLeaves # <<>>
    /\ log[result.event].leaf # newUserState.newGSTLeaf

\* C36: with nothing staged, a call of userStateTransition or the handler of
\* a UserStateTransitioned event changes neither latestTransitionedEpoch nor
\* latestGSTLeafIndex nor the reputation ledger, whatever the leaf handed
\* in, the zero leaf included.
C36_NothingStagedNothingCommitted ==
    newUserState = EmptyNewUserState =>
        \A n \in Views, fromEpoch \in Epochs, leaf \in LeafChoices :
            /\ KeepsCommitted(userStateTransition(Self, n, fromEpoch, leaf).u)
            /\ KeepsCommitted(Handler(Self, n, TransitionEvent(leaf, fromEpoch)).u)

\* the GST leaves the Synchronizer holds for latestTransitionedEpoch
OwnEpochLeaves == GSTLeaves(processed, latestTransitionedEpoch)

\* C37: whenever the identity has signed up, the GST leaf at index
\* latestGSTLeafIndex of epoch latestTransitionedEpoch is the hash of the
\* commitment and the root of genUserStateTree().
C37_CommittedLeafIsHashOfUserState ==
    hasSignedUp =>
        /\ latestGSTLeafIndex + 1 \in 1..Len(OwnEpochLeaves)
        /\ OwnEpochLeaves[latestGSTLeafIndex + 1]
           = hashLeftRight(OwnCommitment, genUserStateTreeRootOf(Self))

\* the record of the attester of the k-th logged attestation of the epoch
\* just before that attestation is applied to the committed root
RecordBefore(k) ==
    ApplyAttestations(SubSeq(LoggedFrom(0), 1, k - 1), PreTransitionRoot)
        [LoggedFrom(0)[k].attesterId]

\* C38: whether genUserStateTransitionProofs runs before or after
\* epochTransition, the first intermediate root of its process inputs is the
\* user state root of the identity's GST leaf, the old_pos_reps,
\* old_neg_reps, old_graffities and old_sign_ups of each real entry are the
\* attester's record just before that attestation is applied, and when a
\* transition is staged the hash of the commitment and the last
\* intermediate root is the staged GST leaf.
C38_ProofInputsAgreeWithStagedTransition ==
    ProofsBuilt =>
        LET b == ProcessBatches
            inputs == result.inputs
            last == b[Len(b)].intermediate_user_state_tree_roots
        IN /\ b[1].intermediate_user_state_tree_roots[1] = PreTransitionRoot
           /\ OwnEpochLeaves[latestGSTLeafIndex + 1]
              = hashLeftRight(OwnCommitment,
                              b[1].intermediate_user_state_tree_roots[1])
           /\ Len(RealEntries(inputs, "selectors")) = Len(LoggedFrom(0))
           /\ \A k \in 1..Len(LoggedFrom(0)) :
                  /\ RealEntries(inputs, "old_pos_reps")[k] = RecordBefore(k).posRep
                  /\ RealEntries(inputs, "old_neg_reps")[k] = RecordBefore(k).negRep
                  /\ RealEntries(inputs, "old_graffities")[k]
                     = RecordBefore(k).graffiti
                  /\ RealEntries(inputs, "old_sign_ups")[k] = RecordBefore(k).signUp
           /\ newUserState # EmptyNewUserState
              => hashLeftRight(OwnCommitment, last[Len(last)])
                 = newUserState.newGSTLeaf

\* C39: whenever the UserState can be observed, either hasSignedUp is true,
\* or latestTransitionedEpoch and the reputation ledger are as the
\* constructor left them: a signUp that has not completed has changed
\* neither.
C39_SignUpIsAtomic ==
    ~hasSignedUp =>
        /\ latestTransitionedEpoch = 0
        /\ LedgerOf(heap, latestUserStateLeaves) = <<>>

====
